---- MODULE Spec2Model ----
(***************************************************************************)
(* Model of the yoga assistant bot: the conversation flows of bot.py and   *)
(* handlers/*.py, the user/practice store of database/models.py and the    *)
(* reminder jobs kept in the job queue.                                    *)
(*                                                                         *)
(* Button labels are Ukrainian in the source; each label is a definition   *)
(* here, written in ASCII, with the source line that spells it.            *)
(***************************************************************************)
EXTENDS Integers, Sequences, FiniteSets, Bags, TLC

VARIABLES
    db_users,    \* table users: user id -> <<>> (no row) or <<row>>
    practices,   \* table practices: sequence of rows, position = id
    jobs,        \* the job queue: a bag of jobs (names are not unique by construction)
    conv,        \* per user, the state of each ConversationHandler (NoState = none)
    user_data,   \* per user, context.user_data
    ev           \* the update or job handled last and the replies it sent

vars == <<db_users, practices, jobs, conv, user_data, ev>>

---------------------------------------------------------------------------
(* Optional values: Python None / a missing dictionary key is <<>>. *)

NoneV == <<>>
Some(x) == <<x>>
IsSome(o) == o # <<>>
Val(o) == o[1]

(* Users known to the model. Conversation events come from Chatters; the   *)
(* scheduler and the rehydration are exercised for all Users.              *)
Users == {1, 2, 3}
Chatters == {1}

---------------------------------------------------------------------------
(* Labels (reply-keyboard buttons and fixed texts). *)

BTN_BACK == "Nazad"                         \* bot.py:320
BTN_SETTINGS == "Nalashtuvannia"            \* bot.py:324
BTN_START_PRACTICE == "Rozpochaty praktyku" \* bot.py:328
BTN_PROGRESS == "Perehlianuty prohres"      \* bot.py:332
BTN_HELP == "Dopomoha"                      \* bot.py:336
BTN_MY_PROFILE == "Mii profil"              \* bot.py:340
BTN_PROFILE == "Profil"                     \* bot.py:340
BTN_REMINDERS == "Nahaduvannia"             \* bot.py:344
BTN_LANGUAGE == "Mova"                      \* bot.py:347
BTN_YES_START == "Tak, pochnimo!"           \* bot.py:210
BTN_CHANGE_SETTINGS == "Zminyty nalashtuvannia" \* onboarding_handler.py:203
BTN_DONE == "Hotovo"                        \* profile_handler.py:76
BTN_GOALS == "Tsili"                        \* profile_handler.py:88
BTN_EXPERIENCE == "Riven dosvidu"           \* profile_handler.py:94
BTN_HEALTH == "Zdorovia"                    \* profile_handler.py:106
BTN_DURATION == "Tryvalist"                 \* profile_handler.py:113
EXP_BEGINNER == "Povnyi novachok"           \* onboarding_handler.py:66
EXP_INTERMEDIATE == "Trokhy praktykuvav"    \* onboarding_handler.py:67
EXP_ADVANCED == "Ye dosvid"                 \* onboarding_handler.py:68
DUR_15 == "10-15 khvylyn"                   \* onboarding_handler.py:109
DUR_30 == "20-30 khvylyn"                   \* onboarding_handler.py:110
DUR_60 == "45-60 khvylyn"                   \* onboarding_handler.py:111
FREQ_DAILY == "Shchodnia"                   \* reminders_handler.py:131
FREQ_EVERY_OTHER_DAY == "Cherez den"        \* reminders_handler.py:133
FREQ_WEEKDAYS == "Po budniakh"              \* reminders_handler.py:137
FREQ_WEEKENDS == "Po vykhidnykh"            \* reminders_handler.py:139
BTN_DISABLE == "Vymknuty nahaduvannia"      \* reminders_handler.py:45
NO_HEALTH == "nemaie"                       \* onboarding_handler.py:87
TYPE_ASANA == "Asany (pozy)"                \* practice_handler.py:60
TYPE_MEDITATION == "Medytatsiia"            \* practice_handler.py:62
BTN_COMPLETED == "Zavershyv(la) praktyku"   \* practice_handler.py:134
BTN_POSTPONE == "Vidklasty na potim"        \* practice_handler.py:135
BTN_IN_1_HOUR == "Nahadaty cherez hodynu"   \* practice_handler.py:159
BTN_IN_3_HOURS == "Nahadaty cherez 3 hodyny" \* practice_handler.py:160
STAR_1 == "*"                               \* practice_handler.py:260
STAR_5 == "*****"                           \* practice_handler.py:264
FREE_TEXT == "reduce stress"                \* any text that is no label

---------------------------------------------------------------------------
(* Time texts. A text is a string; Chars gives its characters, on which    *)
(* str.split(':') and int() are modelled.                                  *)

Chars(t) ==
    CASE t = "08:30" -> <<"0", "8", ":", "3", "0">>
      [] t = "0:5" -> <<"0", ":", "5">>
      [] t = "00:05" -> <<"0", "0", ":", "0", "5">>
      [] t = "25:00" -> <<"2", "5", ":", "0", "0">>
      [] t = "08:60" -> <<"0", "8", ":", "6", "0">>
      [] t = "8:30:00" -> <<"8", ":", "3", "0", ":", "0", "0">>
      [] t = "-1:30" -> <<"-", "1", ":", "3", "0">>
      [] t = "0830" -> <<"0", "8", "3", "0">>
      [] t = "abc" -> <<"a", "b", "c">>
      [] t = BTN_BACK -> <<"N", "a", "z", "a", "d">>
      [] t = BTN_YES_START -> <<"T", "a", "k">>

DigitChars == <<"0", "1", "2", "3", "4", "5", "6", "7", "8", "9">>

IsDigit(c) == \E i \in 1..10 : DigitChars[i] = c

DigitVal(c) == (CHOOSE i \in 1..10 : DigitChars[i] = c) - 1

RECURSIVE DigitsVal(_)
DigitsVal(cs) ==
    IF cs = <<>> THEN 0
    ELSE 10 * DigitsVal(SubSeq(cs, 1, Len(cs) - 1)) + DigitVal(cs[Len(cs)])

(* int(s): an optional sign and at least one digit, else ValueError (NoneV) *)
IntOf(cs) ==
    LET signed == cs # <<>> /\ cs[1] \in {"-", "+"}
        ds == IF signed THEN Tail(cs) ELSE cs
    IN  IF ds = <<>> \/ \E i \in 1..Len(ds) : ~IsDigit(ds[i]) THEN NoneV
        ELSE IF signed /\ cs[1] = "-" THEN Some(0 - DigitsVal(ds))
        ELSE Some(DigitsVal(ds))

(* s.split(':') *)
RECURSIVE Split(_)
Split(cs) ==
    IF \A i \in 1..Len(cs) : cs[i] # ":" THEN <<cs>>
    ELSE LET k == CHOOSE i \in 1..Len(cs) :
                     cs[i] = ":" /\ \A j \in 1..(i - 1) : cs[j] # ":"
         IN  <<SubSeq(cs, 1, k - 1)>> \o Split(SubSeq(cs, k + 1, Len(cs)))

(* hour, minute = map(int, s.split(':')): <<h, m>>, or NoneV for ValueError *)
ParseHM(cs) ==
    LET parts == Split(cs)
    IN  IF Len(parts) # 2 THEN NoneV
        ELSE IF IntOf(parts[1]) = NoneV \/ IntOf(parts[2]) = NoneV THEN NoneV
        ELSE Some(<<Val(IntOf(parts[1])), Val(IntOf(parts[2]))>>)

(* faulty variant: the minute's upper limit is not tested *)
InRangeNoMinuteLimit(hm) == 0 <= hm[1] /\ hm[1] <= 23 /\ 0 <= hm[2]

InRange(hm) == 0 <= hm[1] /\ hm[1] <= 23 /\ 0 <= hm[2] /\ hm[2] <= 59

(* the try block of the two time handlers: the validated <<h, m>> or NoneV *)
ValidTime(cs) ==
    IF ParseHM(cs) = NoneV THEN NoneV
    ELSE IF ~InRange(Val(ParseHM(cs))) THEN NoneV
    ELSE ParseHM(cs)

Pad2(n) == <<DigitChars[(n \div 10) + 1], DigitChars[(n % 10) + 1]>>

(* f"{hour:02d}:{minute:02d}" for 0 <= hour, minute <= 99 *)
FormatHM(hm) == Pad2(hm[1]) \o <<":">> \o Pad2(hm[2])

---------------------------------------------------------------------------
(* The job queue. *)

ReminderName(user_id) == <<"reminder", user_id>>
PostponedName(user_id) == <<"postponed_reminder", user_id>>

AllDays == 0..6

TwoDays == 172800

IsRegular(j) == j.name[1] = "reminder"
IsPostponed(j) == j.name[1] = "postponed_reminder"

get_jobs_by_name(reg, name) == {j \in DOMAIN reg : j.name = name}

(* faulty variant: every job of the queue is removed, whatever its name *)
RemoveEveryJob(reg, name) == EmptyBag

(* for job in get_jobs_by_name(name): job.schedule_removal() *)
RemoveByName(reg, name) ==
    [j \in {k \in DOMAIN reg : k.name # name} |-> reg[j]]

AddJob(reg, j) == reg (+) SetToBag({j})

(* len(job_queue.get_jobs_by_name(name)) *)
JobCount(reg, name) ==
    BagCardinality([j \in get_jobs_by_name(reg, name) |-> reg[j]])

(* faulty variant: the jobs found are not removed *)
remove_nothing(reg, user_id) == reg

remove_user_reminder(reg, user_id) == RemoveByName(reg, ReminderName(user_id))

(* the trigger chosen by the if/elif chain of schedule_user_reminder *)
TriggerOf(frequency) ==
    CASE frequency = FREQ_DAILY ->
            [kind |-> "run_daily", days |-> AllDays, interval |-> 0]
      [] frequency = FREQ_EVERY_OTHER_DAY ->
            [kind |-> "run_repeating", days |-> {}, interval |-> TwoDays]
      [] frequency = FREQ_WEEKDAYS ->
            [kind |-> "run_daily", days |-> {0, 1, 2, 3, 4}, interval |-> 0]
      [] frequency = FREQ_WEEKENDS ->
            [kind |-> "run_daily", days |-> {5, 6}, interval |-> 0]
      [] OTHER ->
            [kind |-> "run_daily", days |-> AllDays, interval |-> 0]

(* JobQueue.run_daily(days=...) of python-telegram-bot 20 and later, the    *)
(* release line whose Application and filters the bot is written against:  *)
(* the numbers 0-6 stand for sunday-saturday                               *)
CronDay(d) ==
    CASE d = 0 -> "sun" [] d = 1 -> "mon" [] d = 2 -> "tue" [] d = 3 -> "wed"
      [] d = 4 -> "thu" [] d = 5 -> "fri" [] OTHER -> "sat"

(* the days of the week on which a run_daily job fires *)
FiresOn(j) == {CronDay(d) : d \in j.trigger.days}

RegularJob(user_id, hour, minute, frequency) ==
    [name |-> ReminderName(user_id), trigger |-> TriggerOf(frequency),
     hour |-> hour, minute |-> minute, when |-> 0, chat_id |-> user_id]

(* faulty variant: the removal before scheduling takes every job of the    *)
(* user, the postponed one included                                        *)
schedule_clearing_user(reg, user_id, hour, minute, frequency) ==
    [jobs |-> AddJob([j \in {k \in DOMAIN reg : k.name[2] # user_id} |-> reg[j]],
                     RegularJob(user_id, hour, minute, frequency)),
     raised |-> FALSE]

(* schedule_user_reminder: the prior job is removed first; datetime.time   *)
(* raises ValueError for an hour or minute out of range, after the removal *)
schedule_user_reminder(reg, user_id, hour, minute, frequency) ==
    IF InRange(<<hour, minute>>)
    THEN [jobs |-> AddJob(remove_user_reminder(reg, user_id),
                          RegularJob(user_id, hour, minute, frequency)),
          raised |-> FALSE]
    ELSE [jobs |-> remove_user_reminder(reg, user_id), raised |-> TRUE]

PostponedJob(user_id, hours) ==
    [name |-> PostponedName(user_id),
     trigger |-> [kind |-> "run_once", days |-> {}, interval |-> 0],
     hour |-> 0, minute |-> 0, when |-> hours, chat_id |-> user_id]

(* faulty variant: the postponed job already queued is kept *)
add_postponed(reg, user_id, hours) == AddJob(reg, PostponedJob(user_id, hours))

(* handle_reminder, lines 211-226: replace the postponed job of the user *)
schedule_postponed(reg, user_id, hours) ==
    AddJob(RemoveByName(reg, PostponedName(user_id)), PostponedJob(user_id, hours))

---------------------------------------------------------------------------
(* The store (database/models.py). Timestamps (created_at, last_active,     *)
(* started_at) carry no behaviour and are left out; completed_at is kept   *)
(* as a logical stamp.                                                     *)

(* User(...) as created by start_command, with the column defaults *)
NewUser ==
    [goals |-> NoneV, experience_level |-> NoneV, health_conditions |-> NoneV,
     available_duration |-> NoneV, current_state |-> "onboarding_start",
     notifications_enabled |-> TRUE, reminder_time |-> NoneV,
     reminder_frequency |-> Some("daily")]

(* db.query(User).filter(User.telegram_id == user.id).first() *)
HasUser(u) == db_users[u] # NoneV
DbUser(u) == db_users[u][1]

EmptyUserData ==
    [goals |-> NoneV, experience_level |-> NoneV, health_conditions |-> NoneV,
     available_duration |-> NoneV, notifications_enabled |-> NoneV,
     reminder_frequency |-> NoneV, reminder_time |-> NoneV,
     temp_reminder_freq |-> NoneV, practice_flow |-> NoneV,
     practice_type |-> NoneV, current_practice_id |-> NoneV]

---------------------------------------------------------------------------
(* Dispatch (bot.py:296-303, 312, 385). All handlers are in one group: an  *)
(* update goes to the first handler, in registration order, that accepts   *)
(* it. A ConversationHandler with allow_reentry=True tries its entry       *)
(* points first, then the handlers of the user's state, then its           *)
(* fallbacks, and declines the update when none matches.                   *)

NoState == "NoState"
END == NoState

TextUpd(t) == [cmd |-> FALSE, data |-> t]
CmdUpd(c) == [cmd |-> TRUE, data |-> c]

NoHandler == "none"

OnboardingEntry(upd) ==
    CASE upd.cmd /\ upd.data = "start" -> "start_command"
      [] upd.cmd /\ upd.data = "onboarding" -> "restart_onboarding"
      [] ~upd.cmd /\ upd.data = BTN_YES_START -> "finish_onboarding"
      [] OTHER -> NoHandler

OnboardingState(s, upd) ==
    IF upd.cmd THEN NoHandler
    ELSE CASE s = "O_GOALS" -> "collect_goals"
           [] s = "O_EXPERIENCE" -> "collect_experience"
           [] s = "O_HEALTH" -> "collect_health"
           [] s = "O_DURATION" -> "collect_duration"
           [] s = "O_REMINDER_FREQ" -> "collect_reminder_freq"
           [] s = "O_REMINDER_TIME" -> "collect_reminder_time"
           [] s = "O_CONFIRMATION" -> "finish_onboarding"
           [] OTHER -> NoHandler

OnboardingFallback(upd) ==
    IF ~upd.cmd THEN NoHandler
    ELSE CASE upd.data = "cancel" -> "cancel_onboarding"
           [] upd.data = "start" -> "exit_and_start_cmd"
           [] upd.data = "help" -> "exit_and_help_cmd"
           [] upd.data = "practice" -> "exit_and_practice_cmd"
           [] upd.data = "progress" -> "exit_and_progress_cmd"
           [] upd.data = "settings" -> "exit_and_settings_cmd"
           [] upd.data = "profile" -> "exit_and_profile_cmd"
           [] upd.data = "onboarding" -> "exit_and_onboarding_cmd"
           [] OTHER -> NoHandler

ProfileEntry(upd) ==
    CASE upd.cmd /\ upd.data = "profile" -> "show_profile"
      [] ~upd.cmd /\ upd.data \in {BTN_MY_PROFILE, BTN_PROFILE} -> "show_profile"
      [] OTHER -> NoHandler

ProfileState(s, upd) ==
    IF upd.cmd THEN NoHandler
    ELSE CASE s = "PROFILE_MENU" -> "handle_profile_menu"
           [] s = "EDIT_GOALS" -> "update_goals"
           [] s = "EDIT_EXPERIENCE" -> "update_experience"
           [] s = "EDIT_HEALTH" -> "update_health"
           [] s = "EDIT_DURATION" -> "update_duration"
           [] OTHER -> NoHandler

ProfileFallback(upd) ==
    IF ~upd.cmd THEN NoHandler
    ELSE CASE upd.data = "cancel" -> "cancel_profile_edit"
           [] upd.data = "start" -> "exit_and_start_cmd"
           [] upd.data = "help" -> "exit_and_help_cmd"
           [] upd.data = "practice" -> "exit_and_practice_cmd"
           [] upd.data = "progress" -> "exit_and_progress_cmd"
           [] upd.data = "settings" -> "exit_and_settings_cmd"
           [] upd.data = "profile" -> "exit_and_profile_cmd"
           [] upd.data = "onboarding" -> "exit_and_onboarding_cmd"
           [] OTHER -> NoHandler

ReminderEntry(upd) ==
    IF ~upd.cmd /\ upd.data = BTN_REMINDERS THEN "start_reminder_settings"
    ELSE NoHandler

ReminderState(s, upd) ==
    IF upd.cmd THEN NoHandler
    ELSE CASE s = "REMINDER_FREQ" -> "handle_frequency"
           [] s = "REMINDER_TIME" -> "handle_time"
           [] OTHER -> NoHandler

ReminderFallback(upd) ==
    IF ~upd.cmd THEN NoHandler
    ELSE CASE upd.data = "cancel" -> "exit_and_settings_cmd"
           [] upd.data = "start" -> "exit_and_start_cmd"
           [] upd.data = "help" -> "exit_and_help_cmd"
           [] OTHER -> NoHandler

(* ConversationHandler.check_update with allow_reentry=True *)
CheckUpdate(entry, inState, fallback, s) ==
    IF entry # NoHandler THEN entry
    ELSE IF s = NoState THEN NoHandler
    ELSE IF inState # NoHandler THEN inState
    ELSE fallback

OnboardingCheck(u, upd) ==
    CheckUpdate(OnboardingEntry(upd), OnboardingState(conv[u].onboarding, upd),
                OnboardingFallback(upd), conv[u].onboarding)

ProfileCheck(u, upd) ==
    CheckUpdate(ProfileEntry(upd), ProfileState(conv[u].profile, upd),
                ProfileFallback(upd), conv[u].profile)

ReminderCheck(u, upd) ==
    CheckUpdate(ReminderEntry(upd), ReminderState(conv[u].reminders, upd),
                ReminderFallback(upd), conv[u].reminders)

(* the handlers added after the three conversations *)
PlainCheck(upd) ==
    IF upd.cmd
    THEN CASE upd.data = "help" -> "help_command"
           [] upd.data = "practice" -> "start_practice"
           [] upd.data = "progress" -> "progress_command"
           [] upd.data = "settings" -> "settings_command"
           [] OTHER -> NoHandler
    ELSE "handle_message"

(* the conversation (or "none") and the callback that handle the update.   *)
(* The application is built without concurrent_updates (bot.py:168): the   *)
(* next update is taken only when the callback of the last one returned.   *)
Route(u, upd) ==
    IF ev.hung THEN [conv |-> "none", h |-> NoHandler]
    ELSE IF OnboardingCheck(u, upd) # NoHandler
    THEN [conv |-> "onboarding", h |-> OnboardingCheck(u, upd)]
    ELSE IF ProfileCheck(u, upd) # NoHandler
    THEN [conv |-> "profile", h |-> ProfileCheck(u, upd)]
    ELSE IF ReminderCheck(u, upd) # NoHandler
    THEN [conv |-> "reminders", h |-> ReminderCheck(u, upd)]
    ELSE [conv |-> "none", h |-> PlainCheck(upd)]

(* the conversation state after its callback returned s; a callback of a   *)
(* plain handler has no conversation to update                             *)
SetConv(u, c, s) ==
    IF c = "none" THEN conv ELSE [conv EXCEPT ![u][c] = s]

(* what the update handled last was and did: callback, input, replies sent *)
(* in order, whether an exception reached the error handler (which then    *)
(* sends the notice of bot.py:290), the gateway calls the callback made    *)
(* (calls) and whether the callback is still waiting for one of them       *)
(* (hung)                                                                  *)
Ev(u, c, h, t, out) ==
    [u |-> u, conv |-> c, h |-> h, text |-> t, out |-> out, err |-> FALSE,
     calls |-> <<>>, hung |-> FALSE]
Raised(u, c, h, t, out) ==
    [u |-> u, conv |-> c, h |-> h, text |-> t,
     out |-> out \o <<"error_notice">>, err |-> TRUE,
     calls |-> <<>>, hung |-> FALSE]

(* how a gateway call comes back to the callback that awaits it: with a    *)
(* result, with an exception, or not at all                                *)
GatewayResults == {"ok", "error", "hang"}

(* a gateway call of a callback: the method of ClaudeClient, whether it is *)
(* awaited under asyncio.wait_for, and how it came back                    *)
GatewayCall(op, guarded, result) ==
    [op |-> op, guarded |-> guarded, result |-> result]

(* the event e of a callback that made the gateway call c *)
WithCall(e, c) == [e EXCEPT !.calls = <<c>>]

(* the callback that awaits a call which never returns is never resumed *)
Waiting(e, c) == [e EXCEPT !.calls = <<c>>, !.hung = TRUE]

---------------------------------------------------------------------------
(* Inputs the model sends to each callback: a label the callback tests for *)
(* and, where the callback has a default, a text it does not know.         *)

GoalInputs == {FREE_TEXT}
ExperienceInputs == {EXP_BEGINNER, BTN_BACK}
HealthInputs == {NO_HEALTH}
DurationInputs == {DUR_30}
FrequencyInputs == {FREQ_DAILY, BTN_DISABLE}
TimeInputs == {"08:30", "0:5", "25:00", "08:60", "8:30:00", "-1:30", "0830", "abc",
               BTN_BACK}
LeanTimeInputs == {"08:30", "25:00"}
ConfirmInputs == {BTN_YES_START, BTN_CHANGE_SETTINGS}
Commands == {"start", "onboarding", "cancel", "help", "practice", "progress",
             "settings", "profile"}

(* str.lower() on the inputs of the health prompts *)
Lower(t) == IF t = "Nemaie" THEN NO_HEALTH ELSE t

(* health_info.lower() not in ['немає', 'ні', 'no'] *)
HealthList(t) == IF Lower(t) \in {NO_HEALTH, "ni", "no"} THEN <<>> ELSE <<t>>

(* experience_map.get(text, 'beginner') *)
ExperienceOf(t) ==
    CASE t = EXP_BEGINNER -> "beginner"
      [] t = EXP_INTERMEDIATE -> "intermediate"
      [] t = EXP_ADVANCED -> "advanced"
      [] OTHER -> "beginner"

(* faulty variant: the middle choice is read as its lower end *)
DurationOfLowerEnd(t) ==
    CASE t = DUR_15 -> 15
      [] t = DUR_30 -> 20
      [] t = DUR_60 -> 60
      [] OTHER -> 15

(* duration_map.get(text, 15) *)
DurationOf(t) ==
    CASE t = DUR_15 -> 15
      [] t = DUR_30 -> 30
      [] t = DUR_60 -> 60
      [] OTHER -> 15

(* dict.get(key, default) *)
Get(o, default) == IF o = NoneV THEN default ELSE Val(o)

---------------------------------------------------------------------------
(* start_handler.py *)

has_completed_onboarding(row) ==
    /\ row.goals # NoneV
    /\ row.experience_level # NoneV
    /\ row.available_duration # NoneV

(* faulty variant: a new row is written whether or not one exists *)
StartedAnew(stored) == Some(NewUser)

(* lines 59-74: the row after /start of a user who is not onboarded: a new *)
(* User when the query found none, the row found with its state tag reset  *)
(* otherwise                                                               *)
StartedUser(stored) ==
    IF stored = NoneV THEN Some(NewUser)
    ELSE Some([Val(stored) EXCEPT !.current_state = "onboarding_start"])

(* start_command: the entry point of the onboarding conversation for       *)
(* /start. Any exception, a failed commit included, is caught: an apology  *)
(* is sent and the callback returns ConversationHandler.END (lines 98-101). *)
start_command(u) ==
    LET r == Route(u, CmdUpd("start")) IN
    /\ r.h = "start_command"
    /\ \E commit_ok \in BOOLEAN :
        IF ~commit_ok
        THEN /\ conv' = SetConv(u, r.conv, END)
             /\ ev' = Ev(u, r.conv, r.h, "/start", <<"apology">>)
             /\ UNCHANGED db_users
        ELSE IF HasUser(u) /\ has_completed_onboarding(DbUser(u))
        THEN /\ conv' = SetConv(u, r.conv, END)
             /\ ev' = Ev(u, r.conv, r.h, "/start", <<"main_menu">>)
             /\ UNCHANGED db_users
        ELSE /\ db_users' = [db_users EXCEPT ![u] = StartedUser(@)]
             /\ conv' = SetConv(u, r.conv, "O_GOALS")
             /\ ev' = Ev(u, r.conv, r.h, "/start", <<"welcome">>)
    /\ UNCHANGED <<practices, jobs, user_data>>

---------------------------------------------------------------------------
(* onboarding_handler.py *)

restart_onboarding(u) ==
    LET r == Route(u, CmdUpd("onboarding")) IN
    /\ r.h = "restart_onboarding"
    /\ conv' = SetConv(u, r.conv, "O_GOALS")
    /\ ev' = Ev(u, r.conv, r.h, "/onboarding", <<"ask_goals">>)
    /\ UNCHANGED <<db_users, practices, jobs, user_data>>

collect_goals(u, t) ==
    LET r == Route(u, TextUpd(t)) IN
    /\ r.h = "collect_goals"
    /\ user_data' = [user_data EXCEPT ![u].goals = Some(t)]
    /\ conv' = SetConv(u, r.conv, "O_EXPERIENCE")
    /\ ev' = Ev(u, r.conv, r.h, t, <<"ask_experience">>)
    /\ UNCHANGED <<db_users, practices, jobs>>

collect_experience(u, t) ==
    LET r == Route(u, TextUpd(t)) IN
    /\ r.h = "collect_experience"
    /\ user_data' = [user_data EXCEPT ![u].experience_level = Some(ExperienceOf(t))]
    /\ conv' = SetConv(u, r.conv, "O_HEALTH")
    /\ ev' = Ev(u, r.conv, r.h, t, <<"ask_health">>)
    /\ UNCHANGED <<db_users, practices, jobs>>

collect_health(u, t) ==
    LET r == Route(u, TextUpd(t)) IN
    /\ r.h = "collect_health"
    /\ user_data' = [user_data EXCEPT ![u].health_conditions = Some(HealthList(t))]
    /\ conv' = SetConv(u, r.conv, "O_DURATION")
    /\ ev' = Ev(u, r.conv, r.h, t, <<"ask_duration">>)
    /\ UNCHANGED <<db_users, practices, jobs>>

collect_duration(u, t) ==
    LET r == Route(u, TextUpd(t)) IN
    /\ r.h = "collect_duration"
    /\ user_data' = [user_data EXCEPT ![u].available_duration = Some(DurationOf(t))]
    /\ conv' = SetConv(u, r.conv, "O_REMINDER_FREQ")
    /\ ev' = Ev(u, r.conv, r.h, t, <<"ask_frequency">>)
    /\ UNCHANGED <<db_users, practices, jobs>>

(* collect_reminder_freq; show_onboarding_summary sends the summary and    *)
(* returns O_CONFIRMATION                                                  *)
collect_reminder_freq(u, t) ==
    LET r == Route(u, TextUpd(t)) IN
    /\ r.h = "collect_reminder_freq"
    /\ IF t = BTN_DISABLE
       THEN /\ user_data' = [user_data EXCEPT
                                ![u].notifications_enabled = Some(FALSE),
                                ![u].reminder_frequency = Some("off"),
                                ![u].reminder_time = NoneV]
            /\ conv' = SetConv(u, r.conv, "O_CONFIRMATION")
            /\ ev' = Ev(u, r.conv, r.h, t, <<"summary">>)
       ELSE /\ user_data' = [user_data EXCEPT
                                ![u].notifications_enabled = Some(TRUE),
                                ![u].reminder_frequency = Some(t)]
            /\ conv' = SetConv(u, r.conv, "O_REMINDER_TIME")
            /\ ev' = Ev(u, r.conv, r.h, t, <<"ask_time">>)
    /\ UNCHANGED <<db_users, practices, jobs>>

collect_reminder_time(u, t) ==
    LET r == Route(u, TextUpd(t))
        hm == ValidTime(Chars(t))
    IN
    /\ r.h = "collect_reminder_time"
    /\ IF hm # NoneV
       THEN /\ user_data' = [user_data EXCEPT
                                ![u].reminder_time = Some(FormatHM(Val(hm)))]
            /\ conv' = SetConv(u, r.conv, "O_CONFIRMATION")
            /\ ev' = Ev(u, r.conv, r.h, t, <<"summary">>)
       ELSE /\ conv' = SetConv(u, r.conv, "O_REMINDER_TIME")
            /\ ev' = Ev(u, r.conv, r.h, t, <<"ask_time_again">>)
            /\ UNCHANGED user_data
    /\ UNCHANGED <<db_users, practices, jobs>>

(* the row written by finish_onboarding, lines 213-220 *)
OnboardedUser(row, ud) ==
    [row EXCEPT
        !.goals = Some(Get(ud.goals, "")),
        !.experience_level = Some(Get(ud.experience_level, "beginner")),
        !.health_conditions = Some(Get(ud.health_conditions, <<>>)),
        !.available_duration = Some(Get(ud.available_duration, 15)),
        !.reminder_frequency = Some(Get(ud.reminder_frequency, "off")),
        !.reminder_time = ud.reminder_time,
        !.notifications_enabled = Get(ud.notifications_enabled, TRUE),
        !.current_state = "active"]

(* faulty variant: the queue is changed before the commit is known to     *)
(* have succeeded                                                          *)
JobsChangedBeforeCommit(reg, u) == remove_user_reminder(reg, u)

(* the queue after a callback whose db.commit() raised: in finish_         *)
(* onboarding, handle_frequency and handle_time the call on the job queue  *)
(* comes after the commit, so it is not reached                            *)
JobsAfterFailedCommit(reg, u) == reg

(* line 226: the condition under which finish_onboarding schedules *)
WantsReminder(row) == row.notifications_enabled /\ row.reminder_time # NoneV

(* how the scheduling of lines 227-234 ends: done, or with an exception    *)
(* (no job queue, a refused trigger) raised before or after the removal    *)
(* of the prior job; the except of line 235 logs it                        *)
ScheduleOutcomes == {"ok", "error", "error_after_removal"}

(* faulty variant: the confirmation never schedules *)
OnboardingJobsNever(reg, u, row) == reg

(* lines 226-236: schedule when enabled and a time is stored; an exception *)
(* while parsing or scheduling is caught and logged                        *)
OnboardingJobs(reg, u, row) ==
    IF row.notifications_enabled /\ row.reminder_time # NoneV
    THEN IF ParseHM(Val(row.reminder_time)) = NoneV THEN reg
         ELSE schedule_user_reminder(reg, u,
                  Val(ParseHM(Val(row.reminder_time)))[1],
                  Val(ParseHM(Val(row.reminder_time)))[2],
                  Val(row.reminder_frequency)).jobs
    ELSE reg

(* finish_onboarding: entry point for the text of bot.py:210 and the       *)
(* callback of O_CONFIRMATION. A failed commit raises out of the callback: *)
(* the session is rolled back and the conversation state stays.            *)
finish_onboarding(u, t) ==
    LET r == Route(u, TextUpd(t)) IN
    /\ r.h = "finish_onboarding"
    /\ IF t = BTN_CHANGE_SETTINGS
       THEN /\ conv' = SetConv(u, r.conv, END)
            /\ ev' = Ev(u, r.conv, r.h, t, <<"settings_menu">>)
            /\ UNCHANGED <<db_users, jobs>>
       ELSE IF ~HasUser(u)
       THEN /\ conv' = SetConv(u, r.conv, END)
            /\ ev' = Ev(u, r.conv, r.h, t, <<"onboarding_done">>)
            /\ UNCHANGED <<db_users, jobs>>
       ELSE \E commit_ok \in BOOLEAN :
            IF commit_ok
            THEN /\ db_users' = [db_users EXCEPT
                        ![u] = Some(OnboardedUser(DbUser(u), user_data[u]))]
                 /\ conv' = SetConv(u, r.conv, END)
                 /\ LET row == OnboardedUser(DbUser(u), user_data[u])
                        done == Ev(u, r.conv, r.h, t, <<"onboarding_done">>)
                    IN  IF ~WantsReminder(row)
                        THEN jobs' = OnboardingJobs(jobs, u, row) /\ ev' = done
                        ELSE \E outcome \in ScheduleOutcomes :
                             /\ jobs' = CASE outcome = "ok" ->
                                                OnboardingJobs(jobs, u, row)
                                           [] outcome = "error" -> jobs
                                           [] OTHER -> remove_user_reminder(jobs, u)
                             /\ ev' = WithCall(done,
                                         GatewayCall("schedule_user_reminder", TRUE,
                                                     IF outcome = "ok" THEN "ok"
                                                     ELSE "error"))
            ELSE /\ ev' = Raised(u, r.conv, r.h, t, <<>>)
                 /\ jobs' = JobsAfterFailedCommit(jobs, u)
                 /\ UNCHANGED <<db_users, conv>>
    /\ UNCHANGED <<practices, user_data>>

cancel_onboarding(u) ==
    LET r == Route(u, CmdUpd("cancel")) IN
    /\ r.h = "cancel_onboarding"
    /\ conv' = SetConv(u, r.conv, END)
    /\ ev' = Ev(u, r.conv, r.h, "/cancel", <<"onboarding_cancelled">>)
    /\ UNCHANGED <<db_users, practices, jobs, user_data>>

---------------------------------------------------------------------------
(* profile_handler.py *)

MenuInputs == {BTN_DONE, BTN_GOALS, BTN_EXPERIENCE, BTN_HEALTH, BTN_DURATION,
               BTN_BACK}
ProfileEntryTexts == {BTN_MY_PROFILE, BTN_PROFILE}

(* show_profile: what it sends and the state it returns *)
ShowProfileOut(u) == IF HasUser(u) THEN <<"profile_view">> ELSE <<"need_onboarding">>
ShowProfileState(u) == IF HasUser(u) THEN "PROFILE_MENU" ELSE END

(* show_profile as entry point of the profile conversation *)
show_profile(u, upd) ==
    LET r == Route(u, upd) IN
    /\ r.h = "show_profile"
    /\ conv' = SetConv(u, r.conv, ShowProfileState(u))
    /\ ev' = Ev(u, r.conv, r.h, upd.data, ShowProfileOut(u))
    /\ UNCHANGED <<db_users, practices, jobs, user_data>>

(* faulty variant: a text outside the menu ends the conversation *)
ProfileMenuEndsOnUnknown(t) ==
    CASE t = BTN_GOALS -> "EDIT_GOALS"
      [] t = BTN_EXPERIENCE -> "EDIT_EXPERIENCE"
      [] t = BTN_HEALTH -> "EDIT_HEALTH"
      [] t = BTN_DURATION -> "EDIT_DURATION"
      [] OTHER -> END

ProfileMenuState(t) ==
    CASE t = BTN_DONE -> END
      [] t = BTN_GOALS -> "EDIT_GOALS"
      [] t = BTN_EXPERIENCE -> "EDIT_EXPERIENCE"
      [] t = BTN_HEALTH -> "EDIT_HEALTH"
      [] t = BTN_DURATION -> "EDIT_DURATION"
      [] OTHER -> "PROFILE_MENU"

ProfileMenuOut(t) ==
    CASE t = BTN_DONE -> <<"profile_saved">>
      [] t = BTN_GOALS -> <<"ask_goals">>
      [] t = BTN_EXPERIENCE -> <<"ask_experience">>
      [] t = BTN_HEALTH -> <<"ask_health">>
      [] t = BTN_DURATION -> <<"ask_duration">>
      [] OTHER -> <<"choose_from_menu">>

handle_profile_menu(u, t) ==
    LET r == Route(u, TextUpd(t)) IN
    /\ r.h = "handle_profile_menu"
    /\ conv' = SetConv(u, r.conv, ProfileMenuState(t))
    /\ ev' = Ev(u, r.conv, r.h, t, ProfileMenuOut(t))
    /\ UNCHANGED <<db_users, practices, jobs, user_data>>

(* the common shape of update_goals, update_experience, update_health and  *)
(* update_duration: write one column when the row exists, commit, confirm, *)
(* then show_profile. A failed commit raises out of the callback.          *)
UpdateField(u, t, h, row) ==
    LET r == Route(u, TextUpd(t)) IN
    /\ r.h = h
    /\ \E commit_ok \in BOOLEAN :
        IF commit_ok \/ ~HasUser(u)
        THEN /\ db_users' = IF HasUser(u) THEN [db_users EXCEPT ![u] = Some(row)]
                            ELSE db_users
             /\ conv' = SetConv(u, r.conv, ShowProfileState(u))
             /\ ev' = Ev(u, r.conv, r.h, t, <<"updated">> \o ShowProfileOut(u))
        ELSE /\ ev' = Raised(u, r.conv, r.h, t, <<>>)
             /\ UNCHANGED <<db_users, conv>>
    /\ UNCHANGED <<practices, jobs, user_data>>

RowOr(u) == IF HasUser(u) THEN DbUser(u) ELSE NewUser

update_goals(u, t) ==
    UpdateField(u, t, "update_goals", [RowOr(u) EXCEPT !.goals = Some(t)])

update_experience(u, t) ==
    UpdateField(u, t, "update_experience",
                [RowOr(u) EXCEPT !.experience_level = Some(ExperienceOf(t))])

update_health(u, t) ==
    UpdateField(u, t, "update_health",
                [RowOr(u) EXCEPT !.health_conditions = Some(HealthList(t))])

(* faulty variant: the answer is written to the goals as well *)
update_duration_and_goals(u, t) ==
    UpdateField(u, t, "update_duration",
                [RowOr(u) EXCEPT !.available_duration = Some(DurationOf(t)),
                                 !.goals = Some(t)])

update_duration(u, t) ==
    UpdateField(u, t, "update_duration",
                [RowOr(u) EXCEPT !.available_duration = Some(DurationOf(t))])

cancel_profile_edit(u) ==
    LET r == Route(u, CmdUpd("cancel")) IN
    /\ r.h = "cancel_profile_edit"
    /\ conv' = SetConv(u, r.conv, END)
    /\ ev' = Ev(u, r.conv, r.h, "/cancel", <<"profile_edit_cancelled">>)
    /\ UNCHANGED <<db_users, practices, jobs, user_data>>

---------------------------------------------------------------------------
(* reminders_handler.py *)

SetupFrequencyInputs == {FREQ_WEEKDAYS, BTN_DISABLE, BTN_BACK}

start_reminder_settings(u) ==
    LET r == Route(u, TextUpd(BTN_REMINDERS)) IN
    /\ r.h = "start_reminder_settings"
    /\ conv' = SetConv(u, r.conv, "REMINDER_FREQ")
    /\ ev' = Ev(u, r.conv, r.h, BTN_REMINDERS, <<"ask_frequency">>)
    /\ UNCHANGED <<db_users, practices, jobs, user_data>>

(* handle_frequency. On "disable" the job is removed only when the row     *)
(* exists, after the commit; a failed commit raises out of the callback.   *)
handle_frequency(u, t) ==
    LET r == Route(u, TextUpd(t)) IN
    /\ r.h = "handle_frequency"
    /\ IF t = BTN_BACK
       THEN /\ conv' = SetConv(u, r.conv, END)
            /\ ev' = Ev(u, r.conv, r.h, t, <<"settings_menu">>)
            /\ UNCHANGED <<db_users, jobs, user_data>>
       ELSE IF t = BTN_DISABLE
       THEN \E commit_ok \in BOOLEAN :
            IF ~HasUser(u)
            THEN /\ conv' = SetConv(u, r.conv, END)
                 /\ ev' = Ev(u, r.conv, r.h, t, <<"reminders_off">>)
                 /\ UNCHANGED <<db_users, jobs, user_data>>
            ELSE IF commit_ok
            THEN /\ db_users' = [db_users EXCEPT
                        ![u] = Some([DbUser(u) EXCEPT !.notifications_enabled = FALSE])]
                 /\ jobs' = remove_user_reminder(jobs, u)
                 /\ conv' = SetConv(u, r.conv, END)
                 /\ ev' = Ev(u, r.conv, r.h, t, <<"reminders_off">>)
                 /\ UNCHANGED user_data
            ELSE /\ ev' = Raised(u, r.conv, r.h, t, <<>>)
                 /\ jobs' = JobsAfterFailedCommit(jobs, u)
                 /\ UNCHANGED <<db_users, conv, user_data>>
       ELSE /\ user_data' = [user_data EXCEPT ![u].temp_reminder_freq = Some(t)]
            /\ conv' = SetConv(u, r.conv, "REMINDER_TIME")
            /\ ev' = Ev(u, r.conv, r.h, t, <<"ask_time">>)
            /\ UNCHANGED <<db_users, jobs>>
    /\ UNCHANGED practices

(* the row written by handle_time, lines 89-91 *)
ReminderUser(row, freq, hm) ==
    [row EXCEPT !.reminder_frequency = freq,
                !.reminder_time = Some(FormatHM(hm)),
                !.notifications_enabled = TRUE]

(* handle_time. The job is scheduled whether or not a row exists. *)
handle_time(u, t) ==
    LET r == Route(u, TextUpd(t))
        hm == ValidTime(Chars(t))
        freq == user_data[u].temp_reminder_freq
    IN
    /\ r.h = "handle_time"
    /\ IF hm = NoneV
       THEN /\ conv' = SetConv(u, r.conv, "REMINDER_TIME")
            /\ ev' = Ev(u, r.conv, r.h, t, <<"ask_time_again">>)
            /\ UNCHANGED <<db_users, jobs>>
       ELSE \E commit_ok \in BOOLEAN :
            IF commit_ok \/ ~HasUser(u)
            THEN /\ db_users' =
                      IF HasUser(u)
                      THEN [db_users EXCEPT
                               ![u] = Some(ReminderUser(DbUser(u), freq, Val(hm)))]
                      ELSE db_users
                 /\ jobs' = schedule_user_reminder(jobs, u, Val(hm)[1], Val(hm)[2],
                                                   Get(freq, "None")).jobs
                 /\ conv' = SetConv(u, r.conv, END)
                 /\ ev' = Ev(u, r.conv, r.h, t, <<"reminder_set">>)
            ELSE /\ ev' = Raised(u, r.conv, r.h, t, <<>>)
                 /\ jobs' = JobsAfterFailedCommit(jobs, u)
                 /\ UNCHANGED <<db_users, conv>>
    /\ UNCHANGED <<practices, user_data>>

---------------------------------------------------------------------------
(* practice_handler.py *)

(* the most practice rows the model creates *)
MaxPractices == 2

TypeInputs == {TYPE_ASANA, FREE_TEXT}
CompletionInputs == {BTN_COMPLETED, BTN_POSTPONE}
DelayInputs == {BTN_IN_1_HOUR, BTN_IN_3_HOURS, FREE_TEXT}
RatingInputs == {STAR_1, STAR_5, FREE_TEXT}

(* Python truthiness of a stored string / integer *)
TruthyStr(o) == o # NoneV /\ Val(o) # ""
TruthyInt(o) == o # NoneV /\ Val(o) # 0

(* start_practice, line 35 *)
OnboardedForPractice(row) ==
    /\ TruthyStr(row.goals)
    /\ TruthyStr(row.experience_level)
    /\ TruthyInt(row.available_duration)

(* start_practice: the replies it sends and the user_data it leaves *)
StartPracticeOut(u) ==
    IF ~HasUser(u) THEN <<"need_onboarding">>
    ELSE IF ~OnboardedForPractice(DbUser(u)) THEN <<"finish_onboarding_first">>
    ELSE <<"ask_practice_type">>

StartPracticeData(u, ud) ==
    IF HasUser(u) /\ OnboardedForPractice(DbUser(u))
    THEN [ud EXCEPT !.practice_flow = Some("type_selection")]
    ELSE ud

(* faulty variant: the flow key is left in user_data *)
KeepFlow(ud) == ud

(* context.user_data.pop('practice_flow', None) *)
PopFlow(ud) == [ud EXCEPT !.practice_flow = NoneV]

(* type_map, lines 59-64 *)
IsPracticeType(t) == t \in {TYPE_ASANA, "Pranaiama (dykhannia)", TYPE_MEDITATION,
                            "Kompleksna praktyka"}
PracticeTypeOf(t) ==
    CASE t = TYPE_ASANA -> "asana"
      [] t = "Pranaiama (dykhannia)" -> "pranayama"
      [] t = TYPE_MEDITATION -> "meditation"
      [] OTHER -> "complex"

NewPractice(u, type, duration) ==
    [user_id |-> u, practice_type |-> type, duration |-> duration,
     completed |-> FALSE, rating |-> NoneV, feedback |-> NoneV,
     completed_at |-> NoneV]

(* faulty variant: the practice_flow marker is not looked at *)
MessageBranchWithoutFlow(u, t) ==
    CASE t \in {BTN_BACK, BTN_SETTINGS, BTN_START_PRACTICE, BTN_PROGRESS, BTN_HELP,
                BTN_MY_PROFILE, BTN_PROFILE, BTN_REMINDERS, BTN_LANGUAGE} -> "navigation"
      [] t \in {BTN_COMPLETED, BTN_POSTPONE} -> "complete_practice"
      [] t \in {BTN_DONE, BTN_YES_START, BTN_EXPERIENCE, BTN_GOALS, BTN_HEALTH,
                BTN_DURATION} -> "show_main_menu"
      [] OTHER -> "ai_chat"

(* the branch of handle_message (bot.py:315-383) that takes the text *)
MessageBranch(u, t) ==
    LET flow == user_data[u].practice_flow IN
    CASE t \in {BTN_BACK, BTN_SETTINGS, BTN_START_PRACTICE, BTN_PROGRESS, BTN_HELP,
                BTN_MY_PROFILE, BTN_PROFILE, BTN_REMINDERS, BTN_LANGUAGE} -> "navigation"
      [] OTHER ->
        CASE flow = Some("type_selection") -> "handle_practice_type"
          [] flow = Some("reminder_setting") -> "handle_reminder"
          [] flow = Some("rating") -> "handle_rating"
          [] OTHER ->
            CASE t \in {BTN_COMPLETED, BTN_POSTPONE} -> "complete_practice"
              [] t \in {BTN_DONE, BTN_YES_START, BTN_EXPERIENCE, BTN_GOALS, BTN_HEALTH,
                        BTN_DURATION} -> "show_main_menu"
              [] OTHER -> "ai_chat"

ToMessage(u, t, branch) ==
    /\ Route(u, TextUpd(t)).h = "handle_message"
    /\ MessageBranch(u, t) = branch

(* handle_practice_type. A text that is no practice type is dropped        *)
(* without a reply. Generation and the commit are inside the try block;    *)
(* generation is awaited under asyncio.wait_for, so that a call that does  *)
(* not return ("hang") ends in TimeoutError.                               *)
handle_practice_type(u, t) ==
    /\ ToMessage(u, t, "handle_practice_type")
    /\ IF ~IsPracticeType(t)
       THEN /\ ev' = Ev(u, "none", "handle_practice_type", t, <<>>)
            /\ UNCHANGED <<practices, user_data>>
       ELSE IF ~HasUser(u)
       THEN /\ user_data' = [user_data EXCEPT
                   ![u] = PopFlow([@ EXCEPT !.practice_type = Some(PracticeTypeOf(t))])]
            /\ ev' = Raised(u, "none", "handle_practice_type", t, <<"creating">>)
            /\ UNCHANGED practices
       ELSE \E generated \in GatewayResults, commit_ok \in BOOLEAN :
            LET call == GatewayCall("generate_practice", TRUE, generated) IN
            IF generated = "ok" /\ commit_ok
            THEN /\ Len(practices) < MaxPractices
                 /\ practices' = Append(practices,
                        NewPractice(u, PracticeTypeOf(t),
                                    Get(DbUser(u).available_duration, 0)))
                 /\ user_data' = [user_data EXCEPT
                        ![u] = [PopFlow(@) EXCEPT
                                   !.practice_type = Some(PracticeTypeOf(t)),
                                   !.current_practice_id = Some(Len(practices) + 1)]]
                 /\ ev' = WithCall(Ev(u, "none", "handle_practice_type", t,
                                      <<"creating", "practice", "ask_completion">>),
                                   call)
            ELSE /\ user_data' = [user_data EXCEPT
                        ![u] = [PopFlow(@) EXCEPT
                                   !.practice_type = Some(PracticeTypeOf(t))]]
                 /\ ev' = WithCall(Ev(u, "none", "handle_practice_type", t,
                                      <<"creating",
                                        IF generated = "hang" THEN "apology_timeout"
                                        ELSE "apology">>),
                                   call)
                 /\ UNCHANGED practices
    /\ UNCHANGED <<db_users, jobs, conv>>

(* faulty variant: the fallback query does not filter on completed *)
LatestOfUser(u) ==
    LET mine == {i \in 1..Len(practices) : practices[i].user_id = u}
    IN  IF ~HasUser(u) \/ mine = {} THEN 0
        ELSE CHOOSE i \in mine : \A k \in mine : k <= i

(* the fallback query of complete_practice and handle_rating: the latest   *)
(* practice of the user that is not completed, 0 when there is none        *)
LatestUncompleted(u) ==
    LET open == {i \in 1..Len(practices) :
                    practices[i].user_id = u /\ ~practices[i].completed}
    IN  IF ~HasUser(u) \/ open = {} THEN 0
        ELSE CHOOSE i \in open : \A k \in open : k <= i

complete_practice(u, t) ==
    LET held == user_data[u].current_practice_id
        practice_id == IF held # NoneV THEN Val(held) ELSE LatestUncompleted(u)
    IN
    /\ ToMessage(u, t, "complete_practice")
    /\ IF t = BTN_POSTPONE
       THEN /\ user_data' = [user_data EXCEPT
                                ![u].practice_flow = Some("reminder_setting")]
            /\ ev' = Ev(u, "none", "complete_practice", t, <<"ask_delay">>)
       ELSE IF practice_id = 0
       THEN /\ ev' = Ev(u, "none", "complete_practice", t, <<"practice_not_found">>)
            /\ UNCHANGED user_data
       ELSE /\ user_data' = [user_data EXCEPT
                                ![u].current_practice_id = Some(practice_id),
                                ![u].practice_flow = Some("rating")]
            /\ ev' = Ev(u, "none", "complete_practice", t, <<"ask_rating">>)
    /\ UNCHANGED <<db_users, practices, jobs, conv>>

(* hours = 1 if "годину" in choice else 3 *)
HoursOf(t) == IF t = BTN_IN_1_HOUR THEN 1 ELSE 3

handle_reminder(u, t) ==
    /\ ToMessage(u, t, "handle_reminder")
    /\ jobs' = schedule_postponed(jobs, u, HoursOf(t))
    /\ user_data' = [user_data EXCEPT ![u] = PopFlow(@)]
    /\ ev' = Ev(u, "none", "handle_reminder", t, <<"postponed">>)
    /\ UNCHANGED <<db_users, practices, conv>>

(* faulty variant: every text gets the default *)
RatingAlwaysDefault(t) == 3

(* rating_map.get(text, 3) *)
RatingOf(t) ==
    CASE t = STAR_1 -> 1
      [] t = "**" -> 2
      [] t = "***" -> 3
      [] t = "****" -> 4
      [] t = STAR_5 -> 5
      [] OTHER -> 3

(* a stamp later than every completed_at stored so far *)
Now == 1 + Cardinality({i \in 1..Len(practices) : practices[i].completed})

(* str.strip() on the characters of a text *)
IsSpace(c) == c \in {" ", "\n"}

RECURSIVE LStrip(_)
LStrip(cs) ==
    IF cs # <<>> /\ IsSpace(Head(cs)) THEN LStrip(Tail(cs)) ELSE cs

RECURSIVE RStrip(_)
RStrip(cs) ==
    IF cs # <<>> /\ IsSpace(cs[Len(cs)]) THEN RStrip(SubSeq(cs, 1, Len(cs) - 1))
    ELSE cs

Strip(cs) == RStrip(LStrip(cs))

(* the texts generate_summary returns in the model: the empty text, ten    *)
(* characters, ten characters between spaces, a line break alone, and      *)
(* eleven characters                                                       *)
SummaryTexts ==
    {<<>>, DigitChars, <<" ">> \o DigitChars \o <<" ", "\n">>, <<"\n">>,
     DigitChars \o <<"!">>}

(* faulty variant: every summary that is not empty is kept *)
KeepsAnySummary(summary) == summary # <<>>

(* line 296: if summary and len(summary.strip()) > 10 *)
KeepsSummary(summary) == summary # <<>> /\ Len(Strip(summary)) > 10

(* the generate_summary call of handle_rating with the text it returned *)
SummaryCall(result, summary) ==
    [op |-> "generate_summary", guarded |-> FALSE, result |-> result,
     text |-> summary]

(* handle_rating. generate_summary returns a text ("ok"), raises ("error") *)
(* or does not return ("hang": the call is awaited as it is, line 295, and *)
(* the callback stays there with the session open and nothing committed).  *)
(* A failed commit raises out of the callback before the flow is cleared.  *)
handle_rating(u, t) ==
    LET held == user_data[u].current_practice_id
        practice_id == IF held # NoneV THEN Val(held) ELSE LatestUncompleted(u)
        found == practice_id \in 1..Len(practices)
    IN
    /\ ToMessage(u, t, "handle_rating")
    /\ IF ~found
       THEN /\ user_data' = [user_data EXCEPT
                   ![u] = [PopFlow(@) EXCEPT !.current_practice_id = NoneV]]
            /\ ev' = Ev(u, "none", "handle_rating", t, <<"thanks", "well_done">>)
            /\ UNCHANGED practices
       ELSE \E result \in GatewayResults, summary \in SummaryTexts,
               commit_ok \in BOOLEAN :
            LET call == SummaryCall(result, summary)
                kept == result = "ok" /\ KeepsSummary(summary)
            IN
            /\ result # "ok" => summary = <<>>
            /\ IF result = "hang"
               THEN /\ ev' = Waiting(Ev(u, "none", "handle_rating", t, <<"thanks">>),
                                     call)
                    /\ UNCHANGED <<practices, user_data>>
               ELSE IF commit_ok
               THEN /\ practices' = [practices EXCEPT
                           ![practice_id] = [@ EXCEPT
                               !.completed = TRUE,
                               !.completed_at = Some(Now),
                               !.rating = Some(RatingOf(t)),
                               !.feedback = IF kept THEN Some(summary) ELSE @]]
                    /\ user_data' = [user_data EXCEPT
                           ![u] = [PopFlow(@) EXCEPT !.current_practice_id = NoneV]]
                    /\ ev' = WithCall(Ev(u, "none", "handle_rating", t,
                                         IF kept
                                         THEN <<"thanks", "summary", "well_done">>
                                         ELSE <<"thanks", "well_done">>),
                                      call)
               ELSE /\ ev' = WithCall(Raised(u, "none", "handle_rating", t,
                                             IF kept THEN <<"thanks", "summary">>
                                             ELSE <<"thanks">>),
                                      call)
                    /\ UNCHANGED <<practices, user_data>>
    /\ UNCHANGED <<db_users, jobs, conv>>

---------------------------------------------------------------------------
(* bot.py: the plain commands, handle_message and the fallbacks *)

NavigationInputs == {BTN_BACK, BTN_SETTINGS, BTN_START_PRACTICE, BTN_PROGRESS,
                     BTN_HELP, BTN_LANGUAGE}
MenuFallthroughInputs == {BTN_DONE, BTN_GOALS}
ChatInputs == {FREE_TEXT, STAR_5}

(* progress_command, lines 36-58: what the first page request answers *)
ProgressOut(u) ==
    IF ~HasUser(u) THEN <<"need_onboarding">>
    ELSE IF \A i \in 1..Len(practices) :
                ~(practices[i].user_id = u /\ practices[i].completed)
    THEN <<"no_practices">>
    ELSE <<"progress_page", "use_menu">>

(* handle_message, step 1: the global navigation buttons *)
navigation(u, t) ==
    /\ ToMessage(u, t, "navigation")
    /\ user_data' = [user_data EXCEPT
          ![u] = CASE t = BTN_START_PRACTICE -> StartPracticeData(u, PopFlow(@))
                   [] t \in {BTN_REMINDERS, BTN_LANGUAGE} -> @
                   [] OTHER -> PopFlow(@)]
    /\ ev' = Ev(u, "none", "handle_message", t,
                CASE t = BTN_BACK -> <<"main_menu">>
                  [] t = BTN_SETTINGS -> <<"settings_menu">>
                  [] t = BTN_START_PRACTICE -> StartPracticeOut(u)
                  [] t = BTN_PROGRESS -> ProgressOut(u)
                  [] t = BTN_HELP -> <<"help">>
                  [] t \in {BTN_MY_PROFILE, BTN_PROFILE} -> ShowProfileOut(u)
                  [] t = BTN_REMINDERS -> <<"ask_frequency">>
                  [] OTHER -> <<"coming_soon">>)
    /\ UNCHANGED <<db_users, practices, jobs, conv>>

(* handle_message, line 361-364 *)
show_main_menu(u, t) ==
    /\ ToMessage(u, t, "show_main_menu")
    /\ ev' = Ev(u, "none", "handle_message", t, <<"main_menu">>)
    /\ UNCHANGED <<db_users, practices, jobs, conv, user_data>>

(* handle_message, step 3: the text goes to the gateway; a gateway failure *)
(* is answered with the command hint; the call is awaited as it is (line   *)
(* 371), so the callback stays there when the call does not return         *)
ai_chat(u, t) ==
    /\ ToMessage(u, t, "ai_chat")
    /\ \E answered \in GatewayResults :
        LET call == GatewayCall("generate_general_response", FALSE, answered) IN
        ev' = CASE answered = "ok" ->
                     WithCall(Ev(u, "none", "ai_chat", t, <<"ai_answer">>), call)
                [] answered = "error" ->
                     WithCall(Ev(u, "none", "ai_chat", t, <<"command_hint">>), call)
                [] OTHER ->
                     Waiting(Ev(u, "none", "ai_chat", t, <<>>), call)
    /\ UNCHANGED <<db_users, practices, jobs, conv, user_data>>

help_command(u) ==
    /\ Route(u, CmdUpd("help")).h = "help_command"
    /\ ev' = Ev(u, "none", "help_command", "/help", <<"help">>)
    /\ UNCHANGED <<db_users, practices, jobs, conv, user_data>>

start_practice(u) ==
    /\ Route(u, CmdUpd("practice")).h = "start_practice"
    /\ user_data' = [user_data EXCEPT ![u] = StartPracticeData(u, @)]
    /\ ev' = Ev(u, "none", "start_practice", "/practice", StartPracticeOut(u))
    /\ UNCHANGED <<db_users, practices, jobs, conv>>

progress_command(u) ==
    /\ Route(u, CmdUpd("progress")).h = "progress_command"
    /\ ev' = Ev(u, "none", "progress_command", "/progress", ProgressOut(u))
    /\ UNCHANGED <<db_users, practices, jobs, conv, user_data>>

settings_command(u) ==
    /\ Route(u, CmdUpd("settings")).h = "settings_command"
    /\ ev' = Ev(u, "none", "settings_command", "/settings", <<"settings_menu">>)
    /\ UNCHANGED <<db_users, practices, jobs, conv, user_data>>

(* the fallbacks of bot.py:170-203: run the named handler, drop what it    *)
(* returns and end the conversation they were registered in                *)
exit_and_help_cmd(u) ==
    LET r == Route(u, CmdUpd("help")) IN
    /\ r.h = "exit_and_help_cmd"
    /\ conv' = SetConv(u, r.conv, END)
    /\ ev' = Ev(u, r.conv, r.h, "/help", <<"help">>)
    /\ UNCHANGED <<db_users, practices, jobs, user_data>>

exit_and_practice_cmd(u) ==
    LET r == Route(u, CmdUpd("practice")) IN
    /\ r.h = "exit_and_practice_cmd"
    /\ conv' = SetConv(u, r.conv, END)
    /\ user_data' = [user_data EXCEPT ![u] = StartPracticeData(u, @)]
    /\ ev' = Ev(u, r.conv, r.h, "/practice", StartPracticeOut(u))
    /\ UNCHANGED <<db_users, practices, jobs>>

exit_and_progress_cmd(u) ==
    LET r == Route(u, CmdUpd("progress")) IN
    /\ r.h = "exit_and_progress_cmd"
    /\ conv' = SetConv(u, r.conv, END)
    /\ ev' = Ev(u, r.conv, r.h, "/progress", ProgressOut(u))
    /\ UNCHANGED <<db_users, practices, jobs, user_data>>

(* also the /cancel fallback of the reminder conversation, bot.py:246 *)
exit_and_settings_cmd(u, c) ==
    LET r == Route(u, CmdUpd(c)) IN
    /\ r.h = "exit_and_settings_cmd"
    /\ conv' = SetConv(u, r.conv, END)
    /\ ev' = Ev(u, r.conv, r.h, "/" \o c, <<"settings_menu">>)
    /\ UNCHANGED <<db_users, practices, jobs, user_data>>

exit_and_profile_cmd(u) ==
    LET r == Route(u, CmdUpd("profile")) IN
    /\ r.h = "exit_and_profile_cmd"
    /\ conv' = SetConv(u, r.conv, END)
    /\ ev' = Ev(u, r.conv, r.h, "/profile", ShowProfileOut(u))
    /\ UNCHANGED <<db_users, practices, jobs, user_data>>

(* bot.py:170-173 and 200-203 *)
exit_and_start_cmd(u) ==
    LET r == Route(u, CmdUpd("start")) IN
    /\ r.h = "exit_and_start_cmd"
    /\ conv' = SetConv(u, r.conv, END)
    /\ ev' = Ev(u, r.conv, r.h, "/start", <<"main_menu">>)
    /\ UNCHANGED <<db_users, practices, jobs, user_data>>

exit_and_onboarding_cmd(u) ==
    LET r == Route(u, CmdUpd("onboarding")) IN
    /\ r.h = "exit_and_onboarding_cmd"
    /\ conv' = SetConv(u, r.conv, END)
    /\ ev' = Ev(u, r.conv, r.h, "/onboarding", <<"ask_goals">>)
    /\ UNCHANGED <<db_users, practices, jobs, user_data>>

---------------------------------------------------------------------------
(* Jobs firing, and the process restarting. *)

(* RemindersHandler.send_reminder: an exception of send_message leaves the *)
(* job callback and reaches the error handler, which has no update to      *)
(* answer.                                                                 *)
send_reminder(u) ==
    /\ get_jobs_by_name(jobs, ReminderName(u)) # {}
    /\ \E delivered \in BOOLEAN :
        ev' = [u |-> u, conv |-> "none", h |-> "send_reminder", text |-> "",
               out |-> IF delivered THEN <<"reminder">> ELSE <<>>,
               err |-> ~delivered, calls |-> <<>>, hung |-> FALSE]
    /\ UNCHANGED <<db_users, practices, jobs, conv, user_data>>

(* PracticeHandler.send_reminder_job: run_once jobs leave the queue when   *)
(* they run; an exception of send_message is caught and logged             *)
send_reminder_job(u) ==
    /\ \E j \in get_jobs_by_name(jobs, PostponedName(u)) :
        jobs' = jobs (-) SetToBag({j})
    /\ \E delivered \in BOOLEAN :
        ev' = Ev(u, "none", "send_reminder_job", "",
                 IF delivered THEN <<"reminder">> ELSE <<>>)
    /\ UNCHANGED <<db_users, practices, conv, user_data>>

(* faulty variant: the query does not filter on notifications_enabled *)
users_with_time ==
    {u \in Users : /\ HasUser(u)
                   /\ DbUser(u).reminder_time # NoneV
                   /\ DbUser(u).reminder_frequency # NoneV}

(* post_init, lines 152-156: the rows the query returns *)
users_with_reminders ==
    {u \in Users : /\ HasUser(u)
                   /\ DbUser(u).notifications_enabled = TRUE
                   /\ DbUser(u).reminder_time # NoneV
                   /\ DbUser(u).reminder_frequency # NoneV}

(* faulty variant: the first row that fails ends the loop *)
RECURSIVE RestoreUntilFailure(_, _)
RestoreUntilFailure(reg, order) ==
    IF order = <<>> THEN reg
    ELSE LET user == DbUser(Head(order))
             hm == ParseHM(Val(user.reminder_time))
         IN  IF hm = NoneV THEN reg
             ELSE IF schedule_user_reminder(reg, Head(order), Val(hm)[1], Val(hm)[2],
                                            Val(user.reminder_frequency)).raised
             THEN reg
             ELSE RestoreUntilFailure(
                      schedule_user_reminder(reg, Head(order), Val(hm)[1], Val(hm)[2],
                                             Val(user.reminder_frequency)).jobs,
                      Tail(order))

(* lines 158-165: one try block per row, in the order the query gave them *)
RECURSIVE RestoreReminders(_, _)
RestoreReminders(reg, order) ==
    IF order = <<>> THEN reg
    ELSE LET user == DbUser(Head(order))
             hm == ParseHM(Val(user.reminder_time))
         IN  RestoreReminders(
                 IF hm = NoneV THEN reg
                 ELSE schedule_user_reminder(reg, Head(order), Val(hm)[1], Val(hm)[2],
                                             Val(user.reminder_frequency)).jobs,
                 Tail(order))

Orders(S) ==
    {o \in [1..Cardinality(S) -> S] : \A i, k \in 1..Cardinality(S) :
                                          o[i] = o[k] => i = k}

post_init(reg) == {RestoreReminders(reg, o) : o \in Orders(users_with_reminders)}

(* the process stops and starts again: the job queue, the conversation     *)
(* states (persistent=False) and user_data are lost, the store is kept,    *)
(* and post_init runs before the first update                              *)
NoConv == [onboarding |-> NoState, profile |-> NoState, reminders |-> NoState]

Restart ==
    /\ jobs' \in post_init(EmptyBag)
    /\ conv' = [u \in Users |-> NoConv]
    /\ user_data' = [u \in Users |-> EmptyUserData]
    /\ ev' = [u |-> 0, conv |-> "none", h |-> "post_init", text |-> "",
              out |-> <<>>, err |-> FALSE, calls |-> <<>>, hung |-> FALSE]
    /\ UNCHANGED <<db_users, practices>>

---------------------------------------------------------------------------
(* The conversation engine: an empty store, then updates of the chatting   *)
(* users, jobs firing and restarts.                                        *)

NoEvent(h) ==
    [u |-> 0, conv |-> "none", h |-> h, text |-> "", out |-> <<>>, err |-> FALSE,
     calls |-> <<>>, hung |-> FALSE]

Init ==
    /\ db_users = [u \in Users |-> NoneV]
    /\ practices = <<>>
    /\ jobs = EmptyBag
    /\ conv = [u \in Users |-> NoConv]
    /\ user_data = [u \in Users |-> EmptyUserData]
    /\ ev = NoEvent("init")

OnboardingStep(u) ==
    \/ start_command(u)
    \/ restart_onboarding(u)
    \/ \E t \in GoalInputs : collect_goals(u, t)
    \/ \E t \in ExperienceInputs : collect_experience(u, t)
    \/ \E t \in HealthInputs : collect_health(u, t)
    \/ \E t \in DurationInputs : collect_duration(u, t)
    \/ \E t \in FrequencyInputs : collect_reminder_freq(u, t)
    \/ \E t \in LeanTimeInputs : collect_reminder_time(u, t)
    \/ \E t \in ConfirmInputs : finish_onboarding(u, t)
    \/ cancel_onboarding(u)

ReminderStep(u) ==
    \/ start_reminder_settings(u)
    \/ \E t \in SetupFrequencyInputs : handle_frequency(u, t)
    \/ \E t \in LeanTimeInputs : handle_time(u, t)

CommandStep(u) ==
    \/ help_command(u)
    \/ settings_command(u)
    \/ exit_and_help_cmd(u)
    \/ \E c \in {"settings", "cancel"} : exit_and_settings_cmd(u, c)

JobStep(u) ==
    \/ send_reminder(u)
    \/ Restart

Next ==
    \E u \in Chatters :
        \/ OnboardingStep(u)
        \/ ReminderStep(u)
        \/ CommandStep(u)
        \/ JobStep(u)

Spec == Init /\ [][Next]_vars

---------------------------------------------------------------------------
(* Rows the flows leave in the store, used where a run starts from a store *)
(* written by earlier runs.                                                *)

(* user_data after the onboarding answers "reduce stress", beginner,       *)
(* no health conditions, 20-30 minutes, daily, 08:30                       *)
ScriptData ==
    [EmptyUserData EXCEPT
        !.goals = Some(FREE_TEXT),
        !.experience_level = Some(ExperienceOf(EXP_BEGINNER)),
        !.health_conditions = Some(HealthList(NO_HEALTH)),
        !.available_duration = Some(DurationOf(DUR_30)),
        !.notifications_enabled = Some(TRUE),
        !.reminder_frequency = Some(FREQ_DAILY),
        !.reminder_time = Some(FormatHM(<<8, 30>>))]

(* finish_onboarding with those answers *)
RowEnabled == OnboardedUser(NewUser, ScriptData)

(* handle_frequency, "disable", on that row *)
RowDisabled == [RowEnabled EXCEPT !.notifications_enabled = FALSE]

(* finish_onboarding after the answer "disable" to the frequency prompt *)
RowOff ==
    OnboardedUser(NewUser, [ScriptData EXCEPT
                               !.notifications_enabled = Some(FALSE),
                               !.reminder_frequency = Some("off"),
                               !.reminder_time = NoneV])

(* handle_time, weekdays at 0:5, on the enabled row *)
RowWeekdays == ReminderUser(RowEnabled, Some(FREQ_WEEKDAYS), <<0, 5>>)

StoredRows == {NoneV, Some(NewUser), Some(RowEnabled), Some(RowDisabled),
               Some(RowOff), Some(RowWeekdays)}

---------------------------------------------------------------------------
(* The scheduler on its own: schedule_user_reminder, remove_user_reminder  *)
(* and the postponed job of handle_reminder called in any order for        *)
(* several users, postponed jobs running, and restarts.                    *)

SchedUsers == {1, 2}
SchedTimes == {<<8, 30>>, <<0, 5>>}
SchedFrequencies == {FREQ_DAILY, FREQ_EVERY_OTHER_DAY, FREQ_WEEKDAYS, FREQ_WEEKENDS,
                     "off"}

Called(u, h, t, args) ==
    [u |-> u, conv |-> "none", h |-> h, text |-> t, out |-> args, err |-> FALSE,
     calls |-> <<>>, hung |-> FALSE]

schedule_call(u, hm, frequency) ==
    /\ jobs' = schedule_user_reminder(jobs, u, hm[1], hm[2], frequency).jobs
    /\ ev' = Called(u, "schedule_user_reminder", frequency, hm)
    /\ UNCHANGED <<db_users, practices, conv, user_data>>

remove_call(u) ==
    /\ jobs' = remove_user_reminder(jobs, u)
    /\ ev' = Called(u, "remove_user_reminder", "",
                    <<JobCount(jobs, ReminderName(u))>>)
    /\ UNCHANGED <<db_users, practices, conv, user_data>>

postpone_call(u, hours) ==
    /\ jobs' = schedule_postponed(jobs, u, hours)
    /\ ev' = Called(u, "schedule_postponed", "", <<hours>>)
    /\ UNCHANGED <<db_users, practices, conv, user_data>>

InitSched ==
    /\ db_users = [u \in Users |-> CASE u = 1 -> Some(RowEnabled)
                                     [] u = 2 -> Some(RowDisabled)
                                     [] OTHER -> Some(RowWeekdays)]
    /\ practices = <<>>
    /\ jobs = EmptyBag
    /\ conv = [u \in Users |-> NoConv]
    /\ user_data = [u \in Users |-> EmptyUserData]
    /\ ev = NoEvent("init")

NextSched ==
    \/ \E u \in SchedUsers, hm \in SchedTimes, f \in SchedFrequencies :
           schedule_call(u, hm, f)
    \/ \E u \in SchedUsers : remove_call(u)
    \/ \E u \in SchedUsers, hours \in {1, 3} : postpone_call(u, hours)
    \/ \E u \in SchedUsers : send_reminder_job(u)
    \/ Restart

SpecSched == InitSched /\ [][NextSched]_vars

---------------------------------------------------------------------------
(* The start of the process on a store written by earlier runs.            *)

InitStored ==
    /\ db_users \in [Users -> StoredRows]
    /\ practices = <<>>
    /\ jobs = EmptyBag
    /\ conv = [u \in Users |-> NoConv]
    /\ user_data = [u \in Users |-> EmptyUserData]
    /\ ev = NoEvent("init")

NextStored ==
    \/ Restart
    \/ \E u \in Users : send_reminder(u)

SpecStored == InitStored /\ [][NextStored]_vars

---------------------------------------------------------------------------
(* Onboarding answered by the script: one fixed answer per prompt, the     *)
(* confirmation sent when the summary is shown. The user may start over,   *)
(* cancel or ask for help at any point, and the process may restart.       *)

ScriptStep(u) ==
    \/ start_command(u)
    \/ restart_onboarding(u)
    \/ collect_goals(u, FREE_TEXT)
    \/ collect_experience(u, EXP_BEGINNER)
    \/ collect_health(u, NO_HEALTH)
    \/ collect_duration(u, DUR_30)
    \/ collect_reminder_freq(u, FREQ_DAILY)
    \/ collect_reminder_time(u, "08:30")
    \/ conv[u].onboarding = "O_CONFIRMATION" /\ finish_onboarding(u, BTN_YES_START)
    \/ cancel_onboarding(u)
    \/ help_command(u)
    \/ exit_and_help_cmd(u)

NextScript ==
    \E u \in Chatters :
        \/ ScriptStep(u)
        \/ send_reminder(u)
        \/ Restart

SpecScript == Init /\ [][NextScript]_vars

---------------------------------------------------------------------------
(* The two time prompts with every time text, reached by fixed answers.    *)

TimeStep(u) ==
    \/ start_command(u)
    \/ collect_goals(u, FREE_TEXT)
    \/ collect_experience(u, EXP_BEGINNER)
    \/ collect_health(u, NO_HEALTH)
    \/ collect_duration(u, DUR_30)
    \/ collect_reminder_freq(u, FREQ_DAILY)
    \/ \E t \in TimeInputs : collect_reminder_time(u, t)
    \/ finish_onboarding(u, BTN_YES_START)
    \/ start_reminder_settings(u)
    \/ handle_frequency(u, FREQ_WEEKDAYS)
    \/ \E t \in TimeInputs : handle_time(u, t)

NextTime == \E u \in Chatters : TimeStep(u)

SpecTime == Init /\ [][NextTime]_vars

---------------------------------------------------------------------------
(* The profile conversation with the navigation buttons and the commands.  *)

ProfileStep(u) ==
    \/ start_command(u)
    \/ \E upd \in {CmdUpd("profile"), TextUpd(BTN_MY_PROFILE)} : show_profile(u, upd)
    \/ \E t \in MenuInputs : handle_profile_menu(u, t)
    \/ \E t \in {FREE_TEXT, BTN_BACK} : update_goals(u, t)
    \/ \E t \in {EXP_ADVANCED, BTN_SETTINGS} : update_experience(u, t)
    \/ \E t \in {NO_HEALTH, BTN_HELP} : update_health(u, t)
    \/ \E t \in {DUR_60, BTN_BACK} : update_duration(u, t)
    \/ cancel_profile_edit(u)
    \/ \E t \in {BTN_BACK, BTN_SETTINGS} : navigation(u, t)
    \/ help_command(u)
    \/ exit_and_help_cmd(u)
    \/ exit_and_settings_cmd(u, "settings")
    \/ exit_and_profile_cmd(u)

NextProfile == \E u \in Chatters : ProfileStep(u)

SpecProfile == Init /\ [][NextProfile]_vars

---------------------------------------------------------------------------
(* The profile conversation of users whose rows hold reminder settings,    *)
(* with the jobs registered by the start of the process.                   *)

EditStep(u) ==
    \/ \E upd \in {CmdUpd("profile"), TextUpd(BTN_MY_PROFILE)} : show_profile(u, upd)
    \/ \E t \in MenuInputs : handle_profile_menu(u, t)
    \/ \E t \in {FREE_TEXT, BTN_BACK} : update_goals(u, t)
    \/ \E t \in {EXP_ADVANCED, BTN_SETTINGS} : update_experience(u, t)
    \/ \E t \in {NO_HEALTH, BTN_HELP} : update_health(u, t)
    \/ \E t \in {DUR_60, BTN_BACK} : update_duration(u, t)
    \/ cancel_profile_edit(u)
    \/ navigation(u, BTN_BACK)
    \/ exit_and_help_cmd(u)

NextEdit ==
    \/ \E u \in Chatters : EditStep(u)
    \/ Restart

SpecEdit == InitSched /\ [][NextEdit]_vars

---------------------------------------------------------------------------
(* The start of the process on a store in which some reminder times were   *)
(* not written by the time prompts.                                        *)

(* an enabled row whose reminder_time is no H:M text *)
RowUnparsed == [RowEnabled EXCEPT !.reminder_time = Some(Chars("abc"))]

(* an enabled row whose reminder_time datetime.time does not accept *)
RowOutOfRange == [RowEnabled EXCEPT !.reminder_time = Some(Chars("25:00"))]

DamagedRows == {Some(RowEnabled), Some(RowWeekdays), Some(RowDisabled),
                Some(RowUnparsed), Some(RowOutOfRange)}

InitDamaged ==
    /\ db_users \in [Users -> DamagedRows]
    /\ practices = <<>>
    /\ jobs = EmptyBag
    /\ conv = [u \in Users |-> NoConv]
    /\ user_data = [u \in Users |-> EmptyUserData]
    /\ ev = NoEvent("init")

NextDamaged ==
    \/ Restart
    \/ \E u \in Users : send_reminder(u)

SpecDamaged == InitDamaged /\ [][NextDamaged]_vars

---------------------------------------------------------------------------
(* The practice flow of a user who finished the onboarding: /practice and  *)
(* the texts handle_message routes by practice_flow, the postponed job     *)
(* running, and restarts.                                                  *)

InitPractice ==
    /\ db_users = [u \in Users |-> IF u \in Chatters THEN Some(RowEnabled) ELSE NoneV]
    /\ practices = <<>>
    /\ jobs = EmptyBag
    /\ conv = [u \in Users |-> NoConv]
    /\ user_data = [u \in Users |-> EmptyUserData]
    /\ ev = NoEvent("init")

PracticeStep(u) ==
    \/ start_practice(u)
    \/ \E t \in TypeInputs : handle_practice_type(u, t)
    \/ \E t \in CompletionInputs : complete_practice(u, t)
    \/ \E t \in {BTN_IN_1_HOUR, BTN_IN_3_HOURS} : handle_reminder(u, t)
    \/ \E t \in {STAR_1, STAR_5} : handle_rating(u, t)
    \/ navigation(u, BTN_BACK)
    \/ ai_chat(u, STAR_5)

NextPractice ==
    \/ \E u \in Chatters : PracticeStep(u)
    \/ \E u \in Chatters : send_reminder_job(u)
    \/ Restart

SpecPractice == InitPractice /\ [][NextPractice]_vars

---------------------------------------------------------------------------
(* bot.py: the page arithmetic of progress_command, for every number of    *)
(* completed practices up to MaxCompleted and every page a command or a    *)
(* pagination button (a stale one included) can ask for.                   *)

items_per_page == 5

(* the most completed practices of the user *)
MaxCompleted == 12

(* the pages asked for: below 1, inside and beyond the last page *)
PageRequests == (0 - 2)..(MaxCompleted \div items_per_page + 4)

(* line 60 *)
total_pages(total_practices) ==
    (total_practices + items_per_page - 1) \div items_per_page

(* faulty variant: the page is not raised to 1 *)
ClampPageFromAbove(page, total_practices) ==
    IF page > total_pages(total_practices) THEN total_pages(total_practices)
    ELSE page

(* lines 61-62 *)
ClampPage(page, total_practices) ==
    LET upper == IF page > total_pages(total_practices)
                 THEN total_pages(total_practices) ELSE page
    IN  IF upper < 1 THEN 1 ELSE upper

(* lines 65-69: the completed practices, numbered from the latest, that    *)
(* .offset(offset).limit(items_per_page) returns; a negative offset is     *)
(* refused by the database                                                 *)
PageRows(page, total_practices) ==
    LET offset == (page - 1) * items_per_page
        left == total_practices - offset
        count == IF left < 0 THEN 0
                 ELSE IF left > items_per_page THEN items_per_page ELSE left
    IN  IF offset < 0 THEN <<>> ELSE [k \in 1..count |-> offset + k]

(* lines 84-91: the pages the inline buttons ask for *)
PageButtons(page, total_practices) ==
    IF total_pages(total_practices) > 1
    THEN (IF page > 1 THEN {page - 1} ELSE {})
         \cup (IF page < total_pages(total_practices) THEN {page + 1} ELSE {})
    ELSE {}

(* what progress_command shows for a user with a row *)
ProgressPage(requested, total_practices) ==
    IF total_practices = 0
    THEN [requested |-> requested, total_practices |-> 0, page |-> 0,
          rows |-> <<>>, buttons |-> {}, text |-> "no_practices"]
    ELSE LET page == ClampPage(requested, total_practices) IN
         [requested |-> requested, total_practices |-> total_practices,
          page |-> page, rows |-> PageRows(page, total_practices),
          buttons |-> PageButtons(page, total_practices),
          text |-> "progress_page"]

(* /progress or the progress button: page takes its default, 1 *)
progress_first_page(u, total_practices) ==
    /\ HasUser(u)
    /\ ev' = [NoEvent("progress_command") EXCEPT
                 !.u = u, !.text = "/progress",
                 !.out = ProgressPage(1, total_practices)]
    /\ UNCHANGED <<db_users, practices, jobs, conv, user_data>>

(* progress_callback_handler, lines 306-310: the page of prog_<page> *)
progress_callback_handler(u, page, total_practices) ==
    /\ HasUser(u)
    /\ ev' = [NoEvent("progress_command") EXCEPT
                 !.u = u, !.text = "prog_",
                 !.out = ProgressPage(page, total_practices)]
    /\ UNCHANGED <<db_users, practices, jobs, conv, user_data>>

NextProgress ==
    \E u \in Chatters, total_practices \in 0..MaxCompleted :
        \/ progress_first_page(u, total_practices)
        \/ \E page \in PageRequests :
               progress_callback_handler(u, page, total_practices)

SpecProgress == InitPractice /\ [][NextProgress]_vars

---------------------------------------------------------------------------
(* Texts of onboarded users arriving inside and outside the reminder and   *)
(* profile conversations and the practice type selection: the same text    *)
(* is a time, a menu answer, a practice type or a chat message depending   *)
(* on where it lands.                                                      *)

ChatTexts == {FREE_TEXT, "08:30", STAR_5}

ChatStep(u) ==
    \/ start_reminder_settings(u)
    \/ \E t \in {FREQ_WEEKDAYS, FREE_TEXT} : handle_frequency(u, t)
    \/ \E t \in {"08:30", "abc"} : handle_time(u, t)
    \/ show_profile(u, TextUpd(BTN_MY_PROFILE))
    \/ \E t \in {BTN_DONE, FREE_TEXT} : handle_profile_menu(u, t)
    \/ start_practice(u)
    \/ \E t \in {TYPE_ASANA, FREE_TEXT} : handle_practice_type(u, t)
    \/ \E t \in ChatTexts : ai_chat(u, t)
    \/ navigation(u, BTN_BACK)
    \/ exit_and_help_cmd(u)

NextChat == \E u \in Chatters : ChatStep(u)

SpecChat == InitPractice /\ [][NextChat]_vars

---------------------------------------------------------------------------
(* ai/claude_client.py: ClaudeClient.generate_response on its own, for     *)
(* every configured model and every way the candidates can answer.         *)

(* Config.OPENROUTER_MODEL by default (config.py:20) *)
DEFAULT_MODEL == "anthropic/claude-3.5-sonnet"

(* the list of lines 46-52 *)
fallbacks ==
    <<"google/gemini-2.0-flash-exp:free", "google/gemini-flash-1.5-8b:free",
      "google/gemini-flash-1.5:free", "mistralai/mistral-7b-instruct:free",
      "qwen/qwen-2-7b-instruct:free">>

(* the values of self.model the model configures: the default, a free      *)
(* model outside the list, and the first, the third and the last of the    *)
(* list                                                                    *)
PrimaryModels ==
    {DEFAULT_MODEL, "meta-llama/llama-3.1-8b-instruct:free",
     fallbacks[1], fallbacks[3], fallbacks[5]}

(* a model identifier cut at its colons *)
ModelParts(m) ==
    CASE m = DEFAULT_MODEL -> <<"anthropic/claude-3.5-sonnet">>
      [] m = "meta-llama/llama-3.1-8b-instruct:free" ->
            <<"meta-llama/llama-3.1-8b-instruct", "free">>
      [] m = fallbacks[1] -> <<"google/gemini-2.0-flash-exp", "free">>
      [] m = fallbacks[2] -> <<"google/gemini-flash-1.5-8b", "free">>
      [] m = fallbacks[3] -> <<"google/gemini-flash-1.5", "free">>
      [] m = fallbacks[4] -> <<"mistralai/mistral-7b-instruct", "free">>
      [] m = fallbacks[5] -> <<"qwen/qwen-2-7b-instruct", "free">>

(* self.model.endswith(':free') *)
EndsWithFree(m) ==
    Len(ModelParts(m)) >= 2 /\ ModelParts(m)[Len(ModelParts(m))] = "free"

(* faulty variant: every fallback is appended *)
models_with_all_fallbacks(model) ==
    <<model>> \o (IF EndsWithFree(model) THEN fallbacks ELSE <<>>)

(* lines 42-55 *)
models_to_try(model) ==
    <<model>> \o (IF EndsWithFree(model)
                  THEN SelectSeq(fallbacks, LAMBDA fb : fb # model)
                  ELSE <<>>)

(* how chat.completions.create ends for one model: a response,             *)
(* RateLimitError, APIStatusError with status 429 or with another status,  *)
(* or any other exception                                                  *)
AttemptResults == {"ok", "rate_limit", "status_429", "status_other", "other"}

(* faulty variant: the wait follows every failure *)
BackoffAfterAnyFailure(result) == result # "ok"

(* asyncio.sleep(2), lines 72 and 78 *)
Backoff(result) == result \in {"rate_limit", "status_429"}

(* one pass of the loop: the model tried, how it ended, whether sleep ran  *)
Attempt(model, result) ==
    [model |-> model, result |-> result, slept |-> Backoff(result)]

(* faulty variant: the loop goes on after a response and the last response *)
(* is returned                                                             *)
RECURSIVE TryEveryModel(_, _, _)
TryEveryModel(models, results, attempts) ==
    IF models = <<>>
    THEN IF \E i \in 1..Len(attempts) : attempts[i].result = "ok"
         THEN LET k == CHOOSE i \in 1..Len(attempts) :
                          /\ attempts[i].result = "ok"
                          /\ \A j \in (i + 1)..Len(attempts) :
                                 attempts[j].result # "ok"
              IN  [calls |-> attempts, raised |-> FALSE, value |-> attempts[k].model]
         ELSE [calls |-> attempts, raised |-> TRUE,
               value |-> attempts[Len(attempts)].result]
    ELSE TryEveryModel(Tail(models), Tail(results),
                       Append(attempts, Attempt(Head(models), Head(results))))

(* the loop of lines 57-90 over models_to_try, results[i] being how the    *)
(* i-th call ends: the attempts made, and the content returned (named by   *)
(* the model that gave it) or last_exception raised                        *)
RECURSIVE TryModels(_, _, _)
TryModels(models, results, attempts) ==
    IF models = <<>>
    THEN [calls |-> attempts, raised |-> TRUE,
          value |-> attempts[Len(attempts)].result]
    ELSE IF Head(results) = "ok"
    THEN [calls |-> Append(attempts, Attempt(Head(models), "ok")),
          raised |-> FALSE, value |-> Head(models)]
    ELSE TryModels(Tail(models), Tail(results),
                   Append(attempts, Attempt(Head(models), Head(results))))

(* a client configured with the model, and how the call to each position   *)
(* of the candidate list is going to end                                   *)
Request(model, results) ==
    [u |-> 0, conv |-> "none", h |-> "ClaudeClient", text |-> model,
     out |-> results, err |-> FALSE, calls |-> <<>>, hung |-> FALSE]

generate_response ==
    /\ ev.h = "ClaudeClient"
    /\ LET done == TryModels(models_to_try(ev.text), ev.out, <<>>)
       IN  ev' = [ev EXCEPT !.h = "generate_response",
                            !.out = <<done.value>>,
                            !.err = done.raised,
                            !.calls = done.calls]
    /\ UNCHANGED <<db_users, practices, jobs, conv, user_data>>

InitGateway ==
    /\ db_users = [u \in Users |-> NoneV]
    /\ practices = <<>>
    /\ jobs = EmptyBag
    /\ conv = [u \in Users |-> NoConv]
    /\ user_data = [u \in Users |-> EmptyUserData]
    /\ \E model \in PrimaryModels,
          results \in [1..(Len(fallbacks) + 1) -> AttemptResults] :
           ev = Request(model, results)

NextGateway == generate_response

SpecGateway == InitGateway /\ [][NextGateway]_vars

---------------------------------------------------------------------------
(* Properties of the scheduler (SpecSched).                                *)

(* C1: after any sequence of schedule, cancel, one-off and rehydration     *)
(* calls the job queue holds at most one regular and at most one postponed *)
(* job per user, and right after schedule_user_reminder(u, ...), whatever  *)
(* the frequency, exactly one regular job of u, at the hour and minute     *)
(* just given.                                                             *)
C1_OneJobPerUser ==
    /\ \A u \in Users :
          /\ JobCount(jobs, ReminderName(u)) <= 1
          /\ JobCount(jobs, PostponedName(u)) <= 1
    /\ ev.h = "schedule_user_reminder" =>
          /\ JobCount(jobs, ReminderName(ev.u)) = 1
          /\ \A j \in get_jobs_by_name(jobs, ReminderName(ev.u)) :
                 j.hour = ev.out[1] /\ j.minute = ev.out[2] /\ j.chat_id = ev.u

(* C1 witness: user 1 was just rescheduled with the frequency "off" at     *)
(* 0:05, away from the 08:30 of the stored row, while holding a postponed  *)
(* job, and user 2 holds a regular and a postponed job too.                *)
C1_Witness ==
    /\ ev.h = "schedule_user_reminder" /\ ev.u = 1 /\ ev.text = "off"
    /\ ev.out = <<0, 5>>
    /\ JobCount(jobs, ReminderName(1)) = 1
    /\ JobCount(jobs, PostponedName(1)) = 1
    /\ JobCount(jobs, ReminderName(2)) = 1
    /\ JobCount(jobs, PostponedName(2)) = 1

---------------------------------------------------------------------------
(* Properties of the start of the process (SpecStored).                    *)

(* C5: post_init registers one regular job for each row with notifications *)
(* enabled, a reminder time and a frequency, and no job for any other      *)
(* user; so two such rows and one disabled row give exactly two jobs.      *)
C5_RehydrateExactlyEnabled ==
    ev.h = "post_init" =>
        /\ \A u \in Users :
              JobCount(jobs, ReminderName(u)) =
                  IF /\ db_users[u] # NoneV
                     /\ db_users[u][1].notifications_enabled
                     /\ db_users[u][1].reminder_time # NoneV
                     /\ db_users[u][1].reminder_frequency # NoneV
                  THEN 1 ELSE 0
        /\ \A j \in DOMAIN jobs : IsRegular(j)

(* C5 witness: two enabled rows with a time, one disabled row with a time, *)
(* and the queue holds two jobs after post_init.                           *)
C5_Witness ==
    /\ ev.h = "post_init"
    /\ db_users[1] = Some(RowEnabled)
    /\ db_users[2] = Some(RowWeekdays)
    /\ db_users[3] = Some(RowDisabled)
    /\ BagCardinality(jobs) = 2

---------------------------------------------------------------------------
(* Properties of the scripted onboarding (SpecScript).                     *)

---------------------------------------------------------------------------
(* Properties of the two time prompts (SpecTime).                          *)

(* a time text as the prompts describe it: two integers around one colon,  *)
(* the hour in 0..23 and the minute in 0..59                               *)
WellFormedTime(cs) ==
    \E k \in 1..Len(cs) :
        /\ cs[k] = ":"
        /\ \A i \in 1..Len(cs) : cs[i] = ":" => i = k
        /\ IntOf(SubSeq(cs, 1, k - 1)) # NoneV
        /\ IntOf(SubSeq(cs, k + 1, Len(cs))) # NoneV
        /\ Val(IntOf(SubSeq(cs, 1, k - 1))) \in 0..23
        /\ Val(IntOf(SubSeq(cs, k + 1, Len(cs)))) \in 0..59

(* the zero-padded form of the accepted texts *)
PaddedTime(t) == IF t = "0:5" THEN "00:05" ELSE t

(* C4: a text handled by collect_reminder_time or handle_time is handled   *)
(* in the time state of its conversation; when it is two integers around   *)
(* one colon with 0<=H<=23 and 0<=M<=59 the conversation leaves that state *)
(* and the time is stored zero-padded (in user_data by the onboarding      *)
(* prompt, in the row, when there is one, by the reminder prompt), unless  *)
(* the store failed; any other text is answered with the prompt again, in  *)
(* the same state, and changes no collected answer, no row and no job.     *)
C4_TimeValidation ==
    [][ev'.h \in {"collect_reminder_time", "handle_time"} =>
          LET u == ev'.u
              c == ev'.conv
              state == IF ev'.h = "handle_time" THEN "REMINDER_TIME"
                       ELSE "O_REMINDER_TIME"
              stored == Some(Chars(PaddedTime(ev'.text)))
          IN  /\ conv[u][c] = state
              /\ IF WellFormedTime(Chars(ev'.text))
                 THEN \/ ev'.err /\ UNCHANGED <<db_users, jobs, user_data, conv>>
                      \/ /\ ~ev'.err
                         /\ conv'[u][c] # state
                         /\ ev'.h = "collect_reminder_time" =>
                                user_data'[u].reminder_time = stored
                         /\ (ev'.h = "handle_time" /\ db_users[u] # NoneV) =>
                                db_users'[u][1].reminder_time = stored
                 ELSE /\ conv'[u][c] = state
                      /\ ev'.out = <<"ask_time_again">>
                      /\ UNCHANGED <<db_users, jobs, user_data, practices>>
      ]_vars

(* C4 witness: "0:5" was just accepted by the reminder prompt and is in    *)
(* the row as 00:05, and the onboarding prompt stored it as 00:05 before.  *)
C4_Witness ==
    /\ ev.h = "handle_time" /\ ev.text = "0:5" /\ ~ev.err
    /\ db_users[1] # NoneV
    /\ db_users[1][1].reminder_time = Some(<<"0", "0", ":", "0", "5">>)
    /\ user_data[1].reminder_time = Some(<<"0", "0", ":", "0", "5">>)
    /\ conv[1].reminders = NoState

---------------------------------------------------------------------------
(* Properties of the conversations (Spec, SpecProfile).                    *)

ConvNames == {"onboarding", "profile", "reminders"}

NavigationKeywords == {BTN_BACK, BTN_SETTINGS, BTN_START_PRACTICE, BTN_PROGRESS,
                       BTN_HELP}

(* C2, its last clause: a navigation button text that arrives while a     *)
(* conversation of the user is in a state is not taken as the answer of    *)
(* that state: handling it changes no row of the store.                    *)
C2_NavigationNotApplied ==
    [][(/\ ev'.text \in NavigationKeywords
        /\ \E c \in ConvNames : conv[ev'.u][c] # NoState) =>
          db_users' = db_users
      ]_vars

(* the texts each prompt with fixed choices offers *)
ChoicesOf(h) ==
    CASE h \in {"collect_experience", "update_experience"} ->
            {EXP_BEGINNER, EXP_INTERMEDIATE, EXP_ADVANCED}
      [] h \in {"collect_duration", "update_duration"} -> {DUR_15, DUR_30, DUR_60}
      [] h \in {"collect_reminder_freq", "handle_frequency"} ->
            {FREQ_DAILY, FREQ_EVERY_OTHER_DAY, FREQ_WEEKDAYS, FREQ_WEEKENDS,
             BTN_DISABLE, BTN_BACK}
      [] h = "handle_practice_type" ->
            {TYPE_ASANA, "Pranaiama (dykhannia)", TYPE_MEDITATION,
             "Kompleksna praktyka"}
      [] h = "handle_reminder" -> {BTN_IN_1_HOUR, BTN_IN_3_HOURS}
      [] h = "handle_rating" -> {STAR_1, "**", "***", "****", STAR_5}
      [] OTHER -> {}

(* C3: a text outside the choices of the prompt that handles it leaves     *)
(* every conversation state, every row, practice, collected answer and job *)
(* as it was and is answered with a prompt.                                *)
C3_UnknownChoiceReprompts ==
    [][(/\ ChoicesOf(ev'.h) # {}
        /\ ev'.text \notin ChoicesOf(ev'.h)) =>
          /\ UNCHANGED <<conv, db_users, practices, user_data, jobs>>
          /\ ev'.out # <<>>
      ]_vars

(* C6: the regular jobs post_init would register on an empty queue from    *)
(* the store as it is now are the regular jobs the queue holds now, with   *)
(* the same trigger, hour and minute.                                      *)
C6_ScheduleSurvivesRestart ==
    \A restored \in post_init(EmptyBag) :
        DOMAIN restored = {j \in DOMAIN jobs : IsRegular(j)}

(* C7: once "disable" has been handled by the frequency prompt of the      *)
(* reminder conversation without a failure, that conversation is in no     *)
(* state and the queue holds no regular job of the user.                   *)
C7_DisableRemovesJob ==
    (ev.h = "handle_frequency" /\ ev.text = BTN_DISABLE /\ ~ev.err) =>
        /\ conv[ev.u].reminders = NoState
        /\ get_jobs_by_name(jobs, ReminderName(ev.u)) = {}

CommandTexts == {"/start", "/onboarding", "/cancel", "/help", "/practice",
                 "/progress", "/settings", "/profile"}

C10_CommandsEndFlows ==
    [][ev'.text \in {"/help", "/cancel", "/start", "/onboarding"} =>
          \A c \in ConvNames :
              conv[ev'.u][c] # NoState => conv'[ev'.u][c] = NoState
      ]_vars

---------------------------------------------------------------------------
(* Properties of the practice flow (SpecPractice).                         *)

(* the practices of user u that are not completed *)
Awaiting(u) ==
    {i \in 1..Len(practices) : practices[i].user_id = u /\ ~practices[i].completed}

(* C11: when "postpone" was answered by a user with a practice awaiting    *)
(* completion and the delay choice comes next, the queue then holds one    *)
(* postponed job of the user, due after the hours chosen, the practice     *)
(* flow is cleared, and no practice row has changed.                       *)
C11_PostponeRegistersJob ==
    [][(/\ ev.h = "complete_practice" /\ ev.text = BTN_POSTPONE
        /\ Awaiting(ev.u) # {}
        /\ ev'.h = "handle_reminder" /\ ev'.u = ev.u
        /\ ev'.text \in {BTN_IN_1_HOUR, BTN_IN_3_HOURS}) =>
          /\ JobCount(jobs', PostponedName(ev.u)) = 1
          /\ \A j \in get_jobs_by_name(jobs', PostponedName(ev.u)) :
                 j.when = (IF ev'.text = BTN_IN_1_HOUR THEN 1 ELSE 3)
          /\ user_data'[ev.u].practice_flow = NoneV
          /\ practices' = practices
      ]_vars

(* C11 witness: the 3-hour delay was just chosen by user 1,               *)
(* whose practice is still not completed; one postponed job is queued.     *)
C11_Witness ==
    /\ ev.h = "handle_reminder" /\ ev.u = 1 /\ ev.text = BTN_IN_3_HOURS
    /\ Awaiting(1) # {}
    /\ user_data[1].practice_flow = NoneV
    /\ user_data[1].current_practice_id # NoneV
    /\ JobCount(jobs, PostponedName(1)) = 1
    /\ \A j \in get_jobs_by_name(jobs, PostponedName(1)) : j.when = 3

(* the number of stars of a rating button *)
StarsOf(t) == IF t = STAR_1 THEN 1 ELSE 5

(* C12: when handle_rating has handled a star button and returned, the     *)
(* practice user_data pointed to as current is completed with the rating   *)
(* of that button, generate_summary was called once, and neither a         *)
(* practice_flow nor a current_practice_id is left in user_data.           *)
C12_RatingCompletesSession ==
    [][(/\ ev'.h = "handle_rating" /\ ev'.text \in {STAR_1, STAR_5}
        /\ ~ev'.err /\ ~ev'.hung) =>
          LET u == ev'.u
              current == user_data[u].current_practice_id
          IN  /\ current # NoneV
              /\ Val(current) \in 1..Len(practices)
              /\ practices[Val(current)].user_id = u
              /\ practices'[Val(current)].completed
              /\ practices'[Val(current)].rating = Some(StarsOf(ev'.text))
              /\ practices'[Val(current)].completed_at # NoneV
              /\ Len(ev'.calls) = 1
              /\ ev'.calls[1].op = "generate_summary"
              /\ user_data'[u].practice_flow = NoneV
              /\ user_data'[u].current_practice_id = NoneV
      ]_vars

(* C12 witness: user 1 just rated the second practice with one star, the   *)
(* summary call failed, and the practice is completed with rating 1.       *)
C12_Witness ==
    /\ ev.h = "handle_rating" /\ ev.u = 1 /\ ev.text = STAR_1 /\ ~ev.err
    /\ Len(ev.calls) = 1 /\ ev.calls[1].result = "error"
    /\ Len(practices) = 2
    /\ practices[2].completed /\ practices[2].rating = Some(1)
    /\ ~practices[1].completed
    /\ user_data[1].practice_flow = NoneV
    /\ user_data[1].current_practice_id = NoneV

(* C13: a practice row is added only by handle_practice_type handling a   *)
(* practice type whose generation call returned a result, one row at a     *)
(* time; and when that call raised or did not return in time, no practice  *)
(* row is added or changed, the replies are the notice that the practice   *)
(* is being created and one apology, and practice_flow is cleared.         *)
C13_SessionOnlyAfterGeneration ==
    [][/\ practices' # practices /\ Len(practices') # Len(practices) =>
            /\ ev'.h = "handle_practice_type"
            /\ ev'.text \in {TYPE_ASANA, "Pranaiama (dykhannia)", TYPE_MEDITATION,
                              "Kompleksna praktyka"}
            /\ ev'.calls = <<GatewayCall("generate_practice", TRUE, "ok")>>
            /\ Len(practices') = Len(practices) + 1
            /\ SubSeq(practices', 1, Len(practices)) = practices
            /\ ~practices'[Len(practices')].completed
       /\ (/\ ev'.h = "handle_practice_type"
           /\ ev'.calls # <<>>
           /\ ev'.calls[1].result \in {"error", "hang"}) =>
            /\ practices' = practices
            /\ ~ev'.err /\ ~ev'.hung
            /\ Len(ev'.out) = 2 /\ ev'.out[1] = "creating"
            /\ ev'.out[2] \in {"apology", "apology_timeout"}
            /\ user_data'[ev'.u].practice_flow = NoneV
      ]_vars

(* C13 witness: the generation call of a second practice did not return in *)
(* time; the user was told so, still has one practice row and no flow.     *)
C13_Witness ==
    /\ ev.h = "handle_practice_type" /\ ev.u = 1 /\ ev.text = TYPE_ASANA
    /\ ev.calls = <<GatewayCall("generate_practice", TRUE, "hang")>>
    /\ ev.out = <<"creating", "apology_timeout">>
    /\ Len(practices) = 1
    /\ user_data[1].practice_flow = NoneV

(* C14: no step changes the completed flag, the rating or the completion   *)
(* stamp of a practice that is completed.                                  *)
C14_CompletedIsFinal ==
    [][\A i \in 1..Len(practices) :
          practices[i].completed =>
              /\ i <= Len(practices')
              /\ practices'[i].completed
              /\ practices'[i].rating = practices[i].rating
              /\ practices'[i].completed_at = practices[i].completed_at
      ]_vars

(* C14 witness: the only practice of user 1 is completed with five stars   *)
(* and the "completed" button pressed after that found nothing to rate.    *)
C14_Witness ==
    /\ ev.h = "complete_practice" /\ ev.u = 1 /\ ev.text = BTN_COMPLETED
    /\ ev.out = <<"practice_not_found">>
    /\ Len(practices) = 1
    /\ practices[1].completed /\ practices[1].rating = Some(5)
    /\ user_data[1].practice_flow = NoneV

---------------------------------------------------------------------------
(* Properties of ClaudeClient.generate_response (SpecGateway).             *)

(* the positions of the candidate list whose call gives a response *)
Succeeding(model, results) ==
    {i \in 1..Len(models_to_try(model)) : results[i] = "ok"}

(* C15: when some candidate gives a response, generate_response returns    *)
(* the response of the first such candidate in list order, having tried    *)
(* the candidates before it once each, in order, and none after it; so     *)
(* with a free primary that is rate-limited and a second candidate that    *)
(* answers, the second candidate's response comes back after 2 attempts.   *)
C15_FirstSuccessReturned ==
    [][(ev.h = "ClaudeClient" /\ ev'.h = "generate_response"
        /\ Succeeding(ev.text, ev.out) # {}) =>
          LET models == models_to_try(ev.text)
              first == CHOOSE i \in Succeeding(ev.text, ev.out) :
                           \A k \in Succeeding(ev.text, ev.out) : i <= k
          IN  /\ ~ev'.err
              /\ ev'.out = <<models[first]>>
              /\ Len(ev'.calls) = first
              /\ \A i \in 1..first :
                     /\ ev'.calls[i].model = models[i]
                     /\ ev'.calls[i].result = ev.out[i]
              /\ (EndsWithFree(ev.text) /\ ev.out[1] = "rate_limit"
                      /\ ev.out[2] = "ok") =>
                     Len(ev'.calls) = 2 /\ ev'.out = <<models[2]>>
      ]_vars

(* C15 witness: the primary, the first model of the fallback list, was     *)
(* rate-limited and the next candidate answered.                           *)
C15_Witness ==
    /\ ev.h = "generate_response" /\ ~ev.err
    /\ ev.text = fallbacks[1]
    /\ ev.calls = <<Attempt(fallbacks[1], "rate_limit"), Attempt(fallbacks[2], "ok")>>
    /\ ev.out = <<fallbacks[2]>>

(* C16: when the call of every candidate fails, generate_response raises   *)
(* the exception of the last candidate, having tried each candidate once,  *)
(* in list order; and sleep ran after the attempts that ended in           *)
(* RateLimitError or status 429 and after no other attempt.                *)
C16_AllFailRaisesLast ==
    [][(ev.h = "ClaudeClient" /\ ev'.h = "generate_response") =>
          LET models == models_to_try(ev.text)
          IN  /\ Succeeding(ev.text, ev.out) = {} =>
                     /\ ev'.err
                     /\ ev'.out = <<ev.out[Len(models)]>>
                     /\ Len(ev'.calls) = Len(models)
                     /\ \A i \in 1..Len(models) :
                            /\ ev'.calls[i].model = models[i]
                            /\ ev'.calls[i].result = ev.out[i]
              /\ \A i \in 1..Len(ev'.calls) :
                     ev'.calls[i].slept <=>
                         ev'.calls[i].result \in {"rate_limit", "status_429"}
      ]_vars

(* C16 witness: five candidates failed in four different ways and the      *)
(* exception of the last one was raised.                                   *)
C16_Witness ==
    /\ ev.h = "generate_response" /\ ev.err
    /\ ev.text = fallbacks[3]
    /\ Len(ev.calls) = 5
    /\ ev.calls[1].result = "rate_limit" /\ ev.calls[1].slept
    /\ ev.calls[2].result = "status_429" /\ ev.calls[2].slept
    /\ ev.calls[3].result = "status_other" /\ ~ev.calls[3].slept
    /\ ev.calls[4].result = "rate_limit"
    /\ ev.calls[5].result = "other" /\ ~ev.calls[5].slept
    /\ ev.out = <<"other">>

(* the elements of a sequence *)
Range(seq) == {seq[i] : i \in 1..Len(seq)}

(* C17: for every configured model the candidate list starts with it,      *)
(* holds no identifier twice, is the model alone unless the model is       *)
(* tagged free, and then holds the model and the fallback list; and a call *)
(* with a model that is not tagged free has made exactly one attempt.      *)
C17_CandidateList ==
    /\ \A m \in PrimaryModels :
          LET c == models_to_try(m)
          IN  /\ c[1] = m
              /\ \A i, k \in 1..Len(c) : c[i] = c[k] => i = k
              /\ ~EndsWithFree(m) => c = <<m>>
              /\ EndsWithFree(m) => Range(c) = {m} \cup Range(fallbacks)
    /\ ev.h = "generate_response" =>
          /\ \A i, k \in 1..Len(ev.calls) :
                 ev.calls[i].model = ev.calls[k].model => i = k
          /\ ev.calls[1].model = ev.text
          /\ ~EndsWithFree(ev.text) => Len(ev.calls) = 1

(* C17 witness: the primary is the last model of the fallback list; all    *)
(* candidates failed after five attempts, not six.                         *)
C17_Witness ==
    /\ ev.h = "generate_response" /\ ev.err
    /\ ev.text = fallbacks[5]
    /\ Len(ev.calls) = 5
    /\ ev.calls[1].model = fallbacks[5]
    /\ ev.calls[5].model = fallbacks[4]

---------------------------------------------------------------------------
(* Properties of the gateway calls of the callbacks (SpecPractice).        *)

(* C18: a callback whose gateway call did not return has treated the call  *)
(* as failed and gone on to its end: it is not waiting for the call, it    *)
(* has replied, and after a rating the practice flow and the current       *)
(* practice are cleared.                                                   *)
C18_GatewayCallsTimeBoxed ==
    \A i \in 1..Len(ev.calls) :
        ev.calls[i].result = "hang" =>
            /\ ~ev.hung
            /\ ev.out # <<>>
            /\ ev.h = "handle_rating" =>
                   /\ user_data[ev.u].practice_flow = NoneV
                   /\ user_data[ev.u].current_practice_id = NoneV

---------------------------------------------------------------------------
(* Properties of the start of the process on damaged rows (SpecDamaged).   *)

(* C19: after post_init, in whatever order the rows were read, every       *)
(* enabled row with a reminder time that parses and is in range has its    *)
(* job, at that time, and the rows whose time failed have none.            *)
C19_FailureSkipsOneRow ==
    ev.h = "post_init" =>
        \A u \in users_with_reminders :
            LET time == ValidTime(Val(DbUser(u).reminder_time))
            IN  IF time = NoneV
                THEN JobCount(jobs, ReminderName(u)) = 0
                ELSE /\ JobCount(jobs, ReminderName(u)) = 1
                     /\ \A j \in get_jobs_by_name(jobs, ReminderName(u)) :
                            j.hour = Val(time)[1] /\ j.minute = Val(time)[2]

(* C19 witness: the rows of users 1 and 3 hold times that fail, one on     *)
(* each side of user 2, whose job is the only one in the queue.            *)
C19_Witness ==
    /\ ev.h = "post_init"
    /\ db_users[1] = Some(RowUnparsed)
    /\ db_users[2] = Some(RowWeekdays)
    /\ db_users[3] = Some(RowOutOfRange)
    /\ JobCount(jobs, ReminderName(2)) = 1
    /\ BagCardinality(jobs) = 1

---------------------------------------------------------------------------
(* Properties of the rows of the store (Spec).                             *)

(* C20: every row holds either a reminder time together with a frequency   *)
(* other than "off", or no reminder time and no frequency other than       *)
(* "off".                                                                  *)
C20_ReminderFieldsTogether ==
    \A u \in Users :
        HasUser(u) =>
            (DbUser(u).reminder_time # NoneV
                <=> /\ DbUser(u).reminder_frequency # NoneV
                    /\ Val(DbUser(u).reminder_frequency) # "off")


(* C21: schedule maps the frequency to the trigger: daily fires every day, *)
(* every other day fires each 172800 seconds from the first occurrence of  *)
(* the time, weekdays fires Monday to Friday only, weekends fires Saturday *)
(* and Sunday only, and any other frequency is scheduled as daily.         *)
EveryDay == {"mon", "tue", "wed", "thu", "fri", "sat", "sun"}

C21_FrequencyToTrigger ==
    (ev.h = "schedule_user_reminder") =>
        \A j \in get_jobs_by_name(jobs, ReminderName(ev.u)) :
            /\ <<j.hour, j.minute>> = ev.out
            /\ CASE ev.text = FREQ_EVERY_OTHER_DAY ->
                        /\ j.trigger.kind = "run_repeating"
                        /\ j.trigger.interval = TwoDays
                  [] ev.text = FREQ_WEEKDAYS ->
                        /\ j.trigger.kind = "run_daily"
                        /\ FiresOn(j) = {"mon", "tue", "wed", "thu", "fri"}
                  [] ev.text = FREQ_WEEKENDS ->
                        /\ j.trigger.kind = "run_daily"
                        /\ FiresOn(j) = {"sat", "sun"}
                  [] OTHER ->
                        /\ j.trigger.kind = "run_daily"
                        /\ FiresOn(j) = EveryDay


(* C22: cancel for a user leaves no regular job registered for that user   *)
(* when one was registered; when none was, it changes nothing and raises   *)
(* no error. Jobs under any other name are left as they were.              *)
C22_CancelRemovesJob ==
    [][(ev'.h = "remove_user_reminder") =>
          /\ JobCount(jobs', ReminderName(ev'.u)) = 0
          /\ ~ev'.err
          /\ (JobCount(jobs, ReminderName(ev'.u)) = 0 => jobs' = jobs)
          /\ \A j \in DOMAIN jobs \cup DOMAIN jobs' :
                 (j.name # ReminderName(ev'.u)) =>
                     /\ j \in DOMAIN jobs /\ j \in DOMAIN jobs'
                     /\ jobs'[j] = jobs[j]]_vars

(* a cancel that found the user's job and removed it, other jobs remaining *)
C22_Witness ==
    /\ ev.h = "remove_user_reminder"
    /\ ev.out = <<1>>
    /\ JobCount(jobs, ReminderName(ev.u)) = 0
    /\ JobCount(jobs, PostponedName(ev.u)) = 1
    /\ \E v \in SchedUsers : v # ev.u /\ JobCount(jobs, ReminderName(v)) = 1


(* C23: registration and cancellation act on one key at a time. In any     *)
(* interleaving of schedule, cancel and scheduleOneOff calls of different  *)
(* users, a call leaves under its own key exactly the job it asked for     *)
(* (none for cancel) and touches no job under another key, be it another   *)
(* user's or the same user's other purpose; so the job a user ends with is *)
(* that of the user's own last call.                                       *)
KeyOfCall(e) ==
    IF e.h = "schedule_postponed" THEN PostponedName(e.u) ELSE ReminderName(e.u)

JobOfCall(e) ==
    CASE e.h = "schedule_user_reminder" ->
            SetToBag({RegularJob(e.u, e.out[1], e.out[2], e.text)})
      [] e.h = "schedule_postponed" -> SetToBag({PostponedJob(e.u, e.out[1])})
      [] OTHER -> EmptyBag

C23_CallsActOnOwnKey ==
    [][(ev'.h \in {"schedule_user_reminder", "remove_user_reminder",
                   "schedule_postponed"}) =>
          /\ \A j \in DOMAIN jobs \cup DOMAIN jobs' :
                 (j.name # KeyOfCall(ev')) =>
                     /\ j \in DOMAIN jobs /\ j \in DOMAIN jobs'
                     /\ jobs'[j] = jobs[j]
          /\ [j \in get_jobs_by_name(jobs', KeyOfCall(ev')) |-> jobs'[j]]
                 = JobOfCall(ev')]_vars

(* a user reschedules while holding a postponed job, and the other user's  *)
(* different regular job and postponed job are registered too              *)
C23_Witness ==
    /\ ev.h = "schedule_user_reminder"
    /\ JobCount(jobs, ReminderName(ev.u)) = 1
    /\ JobCount(jobs, PostponedName(ev.u)) = 1
    /\ \E v \in SchedUsers :
           /\ v # ev.u
           /\ JobCount(jobs, PostponedName(v)) = 1
           /\ \E j \in get_jobs_by_name(jobs, ReminderName(v)) :
                  <<j.hour, j.minute>> # ev.out


---------------------------------------------------------------------------
(* Properties of the profile conversation (SpecProfile).                   *)

EditStates == {"EDIT_GOALS", "EDIT_EXPERIENCE", "EDIT_HEALTH", "EDIT_DURATION"}

EditHandlers == {"update_goals", "update_experience", "update_health",
                 "update_duration"}

(* C24: the profile conversation leaves its states only from the menu on   *)
(* "done", or through a command; an edit state that has handled its input  *)
(* is followed by the menu, and from an edit state nothing but the menu    *)
(* is entered; a menu input that is no menu choice stays in the menu.      *)
C24_ProfileEditGraph ==
    [][\A u \in Users :
         LET from == conv[u].profile
             to == conv'[u].profile
         IN  (ev'.u = u /\ from # NoState) =>
             /\ (to = NoState) =>
                    \/ /\ from = "PROFILE_MENU"
                       /\ ev'.h = "handle_profile_menu" /\ ev'.text = BTN_DONE
                    \/ ev'.text \in CommandTexts
             /\ (from \in EditStates) => to \in {from, "PROFILE_MENU", NoState}
             /\ (ev'.h \in EditHandlers /\ ~ev'.err) => to = "PROFILE_MENU"
             /\ (/\ ev'.h = "handle_profile_menu"
                 /\ ev'.text \notin {BTN_DONE, BTN_GOALS, BTN_EXPERIENCE,
                                     BTN_HEALTH, BTN_DURATION}) =>
                    to = "PROFILE_MENU"
      ]_vars

(* an edit state has handled its input and the conversation is in the menu *)
C24_Witness ==
    /\ ev.h = "update_duration" /\ ~ev.err
    /\ ev.conv = "profile"
    /\ conv[ev.u].profile = "PROFILE_MENU"


---------------------------------------------------------------------------
(* Properties of the chat fallback (SpecChat).                             *)

PracticeSteps == {Some("type_selection"), Some("reminder_setting"), Some("rating")}

(* C25: a text reaches the gateway as a chat message only when no          *)
(* conversation of the user is in a state, no practice step is pending and *)
(* the text is neither a navigation keyword nor a command; when that call  *)
(* fails, the command hint and nothing else is sent, and no row, practice, *)
(* conversation state, collected answer or job changes.                    *)
C25_ChatOnlyOutsideFlows ==
    [][(ev'.h = "ai_chat") =>
          /\ \A c \in ConvNames : conv[ev'.u][c] = NoState
          /\ user_data[ev'.u].practice_flow \notin PracticeSteps
          /\ ev'.text \notin NavigationKeywords \cup CommandTexts
          /\ ev'.calls = <<GatewayCall("generate_general_response", FALSE,
                                        ev'.calls[1].result)>>
          /\ (ev'.calls[1].result = "error") =>
                 /\ ev'.out = <<"command_hint">>
                 /\ UNCHANGED <<db_users, practices, jobs, conv, user_data>>
      ]_vars

(* the chat call of a user failed after that user had been through the     *)
(* reminder conversation and the type selection and holds a job and a      *)
(* generated practice; the command hint was sent                           *)
C25_Witness ==
    /\ ev.h = "ai_chat" /\ ev.text = "08:30"
    /\ ev.calls # <<>> /\ ev.calls[1].result = "error"
    /\ ev.out = <<"command_hint">>
    /\ JobCount(jobs, ReminderName(ev.u)) = 1
    /\ \E i \in 1..Len(practices) :
           practices[i].user_id = ev.u /\ ~practices[i].completed


---------------------------------------------------------------------------
(* Properties of the transitions that write the store and the queue.       *)

(* C26: when the commit fails in a transition that also acts on the job    *)
(* queue (the time prompt accepting a time, the frequency prompt on        *)
(* "disable", the onboarding confirmation), the queue is left exactly as   *)
(* it was, and so is the store.                                            *)
C26_FailedCommitKeepsJobs ==
    [][(/\ ev'.h \in {"handle_time", "handle_frequency", "finish_onboarding"}
        /\ ev'.err) =>
          /\ jobs' = jobs
          /\ db_users' = db_users
      ]_vars

(* the commit of "disable" failed for a user who holds a regular job *)
C26_Witness ==
    /\ ev.h = "handle_frequency" /\ ev.text = BTN_DISABLE /\ ev.err
    /\ JobCount(jobs, ReminderName(ev.u)) = 1


(* C27: a delivery that fails when a reminder job fires, regular or        *)
(* postponed, stays inside the job callback: nothing is raised out of it   *)
(* to the error handling of the application, no row changes and no         *)
(* regular job is added or removed.                                        *)
C27_DeliveryFailureContained ==
    [][(ev'.h \in {"send_reminder", "send_reminder_job"}) =>
          /\ ~ev'.err
          /\ db_users' = db_users
          /\ {j \in DOMAIN jobs' : IsRegular(j)} = {j \in DOMAIN jobs : IsRegular(j)}
      ]_vars


---------------------------------------------------------------------------
(* Properties of the progress pages (SpecProgress).                        *)

(* the least number of pages of five that hold n practices *)
PagesFor(n) == CHOOSE k \in 0..n : 5 * k >= n /\ 5 * (k - 1) < n

(* C28: for every page asked for (0, negative and beyond the last          *)
(* included) and n >= 1 completed practices, the page shown is p with      *)
(* 1 <= p <= ceil(n/5), it lists at most five practices, those from        *)
(* offset 5*(p-1) on, and every pagination button asks for a page within   *)
(* 1..ceil(n/5).                                                           *)
C28_PageWithinRange ==
    (ev.h = "progress_command" /\ ev.out.total_practices >= 1) =>
        LET n == ev.out.total_practices
            page == ev.out.page
            rows == ev.out.rows
        IN  /\ 1 <= page /\ page <= PagesFor(n)
            /\ (ev.out.requested \in 1..PagesFor(n)) => page = ev.out.requested
            /\ Len(rows) <= 5
            /\ Len(rows) >= 1
            /\ \A k \in 1..Len(rows) :
                   rows[k] = 5 * (page - 1) + k /\ rows[k] <= n
            /\ (Len(rows) < 5) => 5 * (page - 1) + Len(rows) = n
            /\ ev.out.buttons \subseteq 1..PagesFor(n)
            /\ page \notin ev.out.buttons

(* a stale button asked for a page below 1 of a list of three pages: the   *)
(* first page is shown, with the button to the second                      *)
C28_Witness ==
    /\ ev.h = "progress_command" /\ ev.text = "prog_"
    /\ ev.out.requested < 1
    /\ ev.out.total_practices = 11
    /\ ev.out.page = 1
    /\ ev.out.buttons = {2}


(* the column each edit callback writes *)
EditedField(h) ==
    CASE h = "update_goals" -> "goals"
      [] h = "update_experience" -> "experience_level"
      [] h = "update_health" -> "health_conditions"
      [] OTHER -> "available_duration"

(* C29: an edit of the profile conversation that succeeds writes one       *)
(* column of the user's row (last_active apart): every other column, the   *)
(* reminder columns among them, every other row, the practices and the     *)
(* jobs are as they were.                                                  *)
C29_EditWritesOneField ==
    [][\A u \in Users :
         (ev'.u = u /\ ev'.h \in EditHandlers /\ ~ev'.err) =>
             /\ HasUser(u)
             /\ db_users'[u] # NoneV
             /\ \A f \in DOMAIN DbUser(u) \ {EditedField(ev'.h)} :
                    Val(db_users'[u])[f] = DbUser(u)[f]
             /\ Val(db_users'[u])[EditedField(ev'.h)] # NoneV
             /\ \A v \in Users \ {u} : db_users'[v] = db_users[v]
             /\ UNCHANGED <<practices, jobs>>
      ]_vars

(* the goals of a user with reminder settings and a registered job were    *)
(* edited                                                                  *)
C29_Witness ==
    /\ ev.h = "update_goals" /\ ~ev.err
    /\ DbUser(ev.u).goals = Some(FREE_TEXT)
    /\ DbUser(ev.u).reminder_time = RowEnabled.reminder_time
    /\ DbUser(ev.u).experience_level = RowEnabled.experience_level
    /\ JobCount(jobs, ReminderName(ev.u)) = 1


(* C30: once the time prompt of the reminder conversation has accepted a   *)
(* time, that conversation is in no state, the user's row holds the        *)
(* frequency chosen at the frequency prompt, the time as HH:MM and         *)
(* notifications enabled, and the queue holds exactly one regular job of   *)
(* the user, with the trigger of that frequency at that time.              *)
C30_AcceptedTimeIsStored ==
    (ev.h = "handle_time" /\ ev.out = <<"reminder_set">>) =>
        LET u == ev.u
            hm == Val(ValidTime(Chars(ev.text)))
            freq == user_data[u].temp_reminder_freq
        IN  /\ conv[u].reminders = NoState
            /\ HasUser(u)
            /\ DbUser(u).reminder_frequency = freq
            /\ DbUser(u).reminder_time = Some(FormatHM(hm))
            /\ DbUser(u).notifications_enabled = TRUE
            /\ JobCount(jobs, ReminderName(u)) = 1
            /\ \A j \in get_jobs_by_name(jobs, ReminderName(u)) :
                   /\ j.trigger = TriggerOf(Val(freq))
                   /\ <<j.hour, j.minute>> = hm


---------------------------------------------------------------------------
(* Properties of the onboarding confirmation (Spec).                       *)

(* C31: a confirmation that saves the row ends the onboarding conversation *)
(* with the row as collected, whether or not scheduling failed. It calls   *)
(* the scheduler exactly when the saved row has notifications enabled and  *)
(* a reminder time: then, unless the call failed, the user holds the one   *)
(* job of the saved frequency and time; otherwise the queue is as it was.  *)
(* A failed call registers nothing and touches no other user's job.        *)
C31_ConfirmationSchedules ==
    [][\A u \in Users :
         (/\ ev'.u = u /\ ev'.h = "finish_onboarding"
          /\ ev'.text # BTN_CHANGE_SETTINGS /\ ~ev'.err /\ HasUser(u)) =>
            LET row == Val(db_users'[u])
                hm == Val(ParseHM(Val(row.reminder_time)))
                mine == [j \in get_jobs_by_name(jobs', ReminderName(u)) |-> jobs'[j]]
            IN  /\ row = OnboardedUser(DbUser(u), user_data[u])
                /\ conv'[u].onboarding = NoState
                /\ ev'.out = <<"onboarding_done">>
                /\ (ev'.calls # <<>>) <=> WantsReminder(row)
                /\ ~WantsReminder(row) => jobs' = jobs
                /\ (WantsReminder(row) /\ ev'.calls[1].result = "ok") =>
                       mine = SetToBag({RegularJob(u, hm[1], hm[2],
                                                   Val(row.reminder_frequency))})
                /\ (WantsReminder(row) /\ ev'.calls[1].result = "error") =>
                       \A j \in DOMAIN jobs' : j \in DOMAIN jobs /\ jobs'[j] <= jobs[j]
                /\ \A j \in DOMAIN jobs :
                       j.name # ReminderName(u) =>
                           j \in DOMAIN jobs' /\ jobs'[j] = jobs[j]
      ]_vars

(* a confirmation saved a row with a reminder time and registered its job *)
C31_Witness ==
    /\ ev.h = "finish_onboarding" /\ ev.out = <<"onboarding_done">>
    /\ ev.calls # <<>> /\ ev.calls[1].result = "ok"
    /\ HasUser(ev.u)
    /\ DbUser(ev.u).reminder_time = Some(Chars("08:30"))
    /\ JobCount(jobs, ReminderName(ev.u)) = 1



---------------------------------------------------------------------------
(* Properties of the rating step (SpecPractice).                           *)

(* the summaries of ten characters or fewer once trimmed *)
ShortSummaries ==
    {<<>>, DigitChars, <<" ">> \o DigitChars \o <<" ", "\n">>, <<"\n">>}

(* C32: when generate_summary raised, or returned a summary of ten         *)
(* characters or fewer after trimming, a rating that is handled to its end *)
(* completes one practice of the user with the rating of the button and a  *)
(* completion time, leaves its feedback unset, sends no summary and clears *)
(* the practice flow.                                                      *)
C32_RatingWithoutSummary ==
    [][\A u \in Users :
         (/\ ev'.u = u /\ ev'.h = "handle_rating" /\ ~ev'.err /\ ~ev'.hung
          /\ ev'.text \in {STAR_1, STAR_5}
          /\ ev'.calls # <<>>
          /\ \/ ev'.calls[1].result = "error"
             \/ ev'.calls[1].result = "ok" /\ ev'.calls[1].text \in ShortSummaries) =>
            /\ Len(practices') = Len(practices)
            /\ \E i \in 1..Len(practices) :
                   /\ practices[i].user_id = u
                   /\ ~practices[i].completed
                   /\ practices'[i].completed
                   /\ practices'[i].rating = Some(StarsOf(ev'.text))
                   /\ practices'[i].completed_at # NoneV
                   /\ practices'[i].feedback = NoneV
                   /\ \A k \in 1..Len(practices) : k # i => practices'[k] = practices[k]
            /\ ev'.out = <<"thanks", "well_done">>
            /\ user_data'[u].practice_flow = NoneV
            /\ user_data'[u].current_practice_id = NoneV
      ]_vars

(* a rating whose summary came back as ten characters between spaces: the  *)
(* practice is completed with five stars and no feedback                   *)
C32_Witness ==
    /\ ev.h = "handle_rating" /\ ev.text = STAR_5 /\ ~ev.err
    /\ ev.calls # <<>> /\ ev.calls[1].result = "ok"
    /\ ev.calls[1].text = <<" ">> \o DigitChars \o <<" ", "\n">>
    /\ \E i \in 1..Len(practices) :
           /\ practices[i].user_id = ev.u /\ practices[i].completed
           /\ practices[i].rating = Some(5) /\ practices[i].feedback = NoneV
    /\ user_data[ev.u].practice_flow = NoneV


---------------------------------------------------------------------------
(* Properties of the start command and of the rows (Spec).                 *)

(* C33: a row appears only by /start of a user who had none, and then it   *)
(* is the new row; no step removes a row, and /start of a user with a row  *)
(* keeps every column of it but the state tag. When /start is handled      *)
(* without a failure, a row with goals, experience level and duration ends *)
(* the onboarding conversation with the main menu and any other user       *)
(* enters the Goals state.                                                 *)
C33_StartCreatesOnce ==
    [][\A u \in Users :
         /\ HasUser(u) => db_users'[u] # NoneV
         /\ (~HasUser(u) /\ db_users'[u] # NoneV) =>
                /\ ev'.h = "start_command" /\ ev'.u = u
                /\ db_users'[u] = Some(NewUser)
         /\ (ev'.u = u /\ ev'.h = "start_command" /\ ev'.out # <<"apology">>) =>
                IF /\ HasUser(u)
                   /\ DbUser(u).goals # NoneV
                   /\ DbUser(u).experience_level # NoneV
                   /\ DbUser(u).available_duration # NoneV
                THEN /\ conv'[u].onboarding = NoState
                     /\ ev'.out = <<"main_menu">>
                     /\ db_users' = db_users
                ELSE /\ conv'[u].onboarding = "O_GOALS"
                     /\ ev'.out = <<"welcome">>
                     /\ HasUser(u) =>
                            \A f \in DOMAIN DbUser(u) \ {"current_state"} :
                                Val(db_users'[u])[f] = DbUser(u)[f]
      ]_vars

(* /start of a user who went through onboarding and holds a job: the main  *)
(* menu, and no onboarding state                                           *)
C33_Witness ==
    /\ ev.h = "start_command" /\ ev.out = <<"main_menu">>
    /\ HasUser(ev.u) /\ DbUser(ev.u).current_state = "active"
    /\ DbUser(ev.u).reminder_time # NoneV
    /\ conv[ev.u].onboarding = NoState


(* C34: whenever the queue holds a regular job of a user, the store holds  *)
(* that user's row, with notifications enabled and with the reminder time  *)
(* at which the job fires; so a user who has gone through onboarding again *)
(* with reminders off holds no regular job.                                *)
C34_JobsMirrorRows ==
    \A j \in DOMAIN jobs :
        IsRegular(j) =>
            /\ HasUser(j.chat_id)
            /\ DbUser(j.chat_id).notifications_enabled = TRUE
            /\ DbUser(j.chat_id).reminder_time = Some(FormatHM(<<j.hour, j.minute>>))


---------------------------------------------------------------------------
(* Properties of the three conversations together.                         *)

(* C35: at any time at most one of the onboarding, profile and reminder    *)
(* conversations of a user is in a state: entering one by its entry text   *)
(* or command ends the other that was in a state.                          *)
C35_OneActiveConversation ==
    \A u \in Users :
        Cardinality({c \in ConvNames : conv[u][c] # NoState}) <= 1

(* C36: when finish_onboarding saves the row, the conversation was at the  *)
(* confirmation prompt, which is reached only through the six prompts      *)
(* after the most recent /start or /onboarding, and each saved field is an *)
(* answer held in user_data; the save is never reached with an answer      *)
(* missing, so it writes no default and no leftover of an abandoned run.   *)
OnboardingSaved(u) ==
    /\ ev'.u = u /\ ev'.h = "finish_onboarding" /\ ~ev'.err
    /\ ev'.out = <<"onboarding_done">>
    /\ db_users'[u] # NoneV

AllCollected(ud) ==
    /\ ud.goals # NoneV
    /\ ud.experience_level # NoneV
    /\ ud.health_conditions # NoneV
    /\ ud.available_duration # NoneV
    /\ ud.reminder_frequency # NoneV
    /\ ud.notifications_enabled # NoneV

C36_SaveAfterCollection ==
    [][\A u \in Users :
          OnboardingSaved(u) =>
              /\ conv[u].onboarding = "O_CONFIRMATION"
              /\ AllCollected(user_data[u])]_vars

(* C37: every stored row which start_command takes as onboarded (it ends   *)
(* with the main menu) is a row for which start_practice offers the        *)
(* selection of the practice type: the two checks agree.                   *)
C37_OnboardedChecksAgree ==
    \A u \in Users :
        (HasUser(u) /\ has_completed_onboarding(DbUser(u)))
            => /\ OnboardedForPractice(DbUser(u))
               /\ StartPracticeOut(u) = <<"ask_practice_type">>

(* the stored answers of a row: all but the state tag *)
ProfileFields(row) ==
    <<row.goals, row.experience_level, row.health_conditions,
      row.available_duration, row.notifications_enabled, row.reminder_time,
      row.reminder_frequency>>

(* C38: a step of the onboarding conversation other than the save made   *)
(* at the confirmation prompt leaves the job queue and the stored answers  *)
(* of the user as they were: the prompts only write user_data, /start      *)
(* writes the state tag or a row without answers, and the commands that    *)
(* leave the conversation and the choice to change the settings write      *)
(* nothing.                                                                *)
C38_OnboardingWritesOnlyAtConfirmation ==
    [][\A u \in Users :
          (/\ ev'.u = u /\ ev'.conv = "onboarding"
           /\ ~(OnboardingSaved(u) /\ conv[u].onboarding = "O_CONFIRMATION")) =>
              /\ jobs' = jobs
              /\ HasUser(u) =>
                     /\ db_users'[u] # NoneV
                     /\ ProfileFields(Val(db_users'[u])) = ProfileFields(DbUser(u))
              /\ ~HasUser(u) => db_users'[u] \in {NoneV, Some(NewUser)}]_vars

(* C39: when the profile or the reminder conversation is entered by its    *)
(* menu text, no practice step (type selection, delay choice, rating) is   *)
(* pending afterwards, so that no text sent once that conversation has     *)
(* ended is taken as the answer to a practice prompt shown before it.      *)
C39_MenuEntryClearsPracticeStep ==
    [][(/\ ev'.h \in {"show_profile", "start_reminder_settings"}
        /\ ev'.text \in {BTN_MY_PROFILE, BTN_PROFILE, BTN_REMINDERS}) =>
          user_data'[ev'.u].practice_flow \notin PracticeSteps]_vars

====
